---- MODULE Spec2Model ----
(***************************************************************************)
(* A model of the clawcontrol deployment core: the tunnel registry         *)
(* (services/tunnel.ts), the SSH session layer (services/ssh.ts), the      *)
(* persisted deployment state (services/config.ts, carried in ssh.ts), the *)
(* checkpointed provisioning run that drives them, the views that open     *)
(* connections and host the run (StatusView, LogsView, DeployingView), the *)
(* polling waits, and the OpenSSH encoding of a generated key pair.        *)
(*                                                                         *)
(* Each subsystem has its own next-state relation and specification over   *)
(* the one set of variables; a subsystem's actions leave the others'       *)
(* variables unchanged.                                                    *)
(***************************************************************************)
EXTENDS Integers, Sequences, FiniteSets, TLC

VARIABLES
    \* ---- tunnel registry (services/tunnel.ts)
    activeTunnels,  \* the module-level Map: deployment name -> tunnel or NoTunnel
    procs,          \* the forwarding processes spawned so far (ChildProcess objects)
    calls,          \* the startTunnel invocations: position and locals of each
    extBusy,        \* local ports held by listeners that are not ours
    held,           \* history: per name, the process of the tunnel last returned
                    \* by startTunnel since the last stopTunnel/stopAllTunnels
    got             \* what the last getTunnel / getActiveTunnels call returned

VARIABLES
    \* ---- one SSHConnection and the ssh2 Client it owns (services/ssh.ts)
    conn,           \* the object's fields and the position of its connect() call
    ops,            \* the exec / execStream / shell invocations made on it
    peer,           \* the server as the keepalive sees it
    hist            \* history: what the attempts reported, the waits taken

VARIABLES
    \* ---- one deployment's persisted state and the runs made on it
    dstate,         \* the state file (services/config.ts: state.json)
    run,            \* the startDeployment run: position, and what it did
    deployState     \* DeployingView's deployState

VARIABLES
    \* ---- the deployment's directory (services/config.ts) and the calls on it
    disk,           \* what exists under ~/.clawcontrol besides the state file
    outcome         \* the last call made on it, and how it ended

VARIABLES
    \* ---- the provisioning steps run on the server (services/setup)
    host,           \* the server: the steps whose target condition holds on it
    prov            \* the step call in progress or last made, and what it issued

VARIABLES
    \* ---- the views that open connections (StatusView, LogsView)
    sess,           \* the SSHConnections made by connectToDeployment
    ui              \* the mounted view: its React state and refs

VARIABLES
    \* ---- the polling waits (waitForServerRunning, waitForAction, waitForSSH,
    \*      waitForTailscaleAuth)
    poll            \* one wait: its arguments, its clock, what its polls saw

VARIABLES
    \* ---- DeployingView and the callbacks it hands to the run
    dv              \* its React state, its resolver states, the runs it started

VARIABLES
    \* ---- one generated key pair (generateSSHKeyPair)
    keys            \* the key material and the two encodings built from it

VARIABLES
    \* ---- the questions asked of a server (services/setup, services/ssh.ts)
    ask,            \* the last getTailscaleAuthUrl / verifyOpenClawDaemon /
                    \* isOpenClawRunning call: what the server said, what it gave
    test            \* one testSSHConnection call and the SSHConnection it makes

vars == <<activeTunnels, procs, calls, extBusy, held, got, conn, ops, peer, hist,
          dstate, run, deployState, disk, outcome, host, prov, sess, ui, poll, dv, keys, ask, test>>

----------------------------------------------------------------------------
\* Bounds of the model

MaxStarts == 2      \* startTunnel invocations over a behaviour, callers overlapping
MaxSeqStarts == 3   \* startTunnel invocations over a behaviour, callers one at a time
MaxRetries == 2     \* the largest `retries` passed to connect()
MaxOps == 2         \* exec / execStream / shell invocations over a behaviour
MaxRuns == 3        \* startDeployment runs over a behaviour
MaxSess == 3        \* connectToDeployment calls over a behaviour
MaxReads == 1       \* fetchLogs calls awaiting getOpenClawLogs at one time
MaxTimeout == 3     \* the largest timeoutMs of a wait, in ticks
MaxInterval == 2    \* the largest pollIntervalMs of a wait, in ticks
MaxLag == 1         \* the longest a poll takes, and a timer is late, in ticks
MaxReqs == 2        \* confirm / terminal requests made of one DeployingView
MaxViewRuns == 2    \* executions of DeployingView's effect
MaxStepCalls == 2   \* calls of provisioning steps over a behaviour
MaxUpdates == 3     \* writes of the state file by updateDeploymentState calls of any caller
MaxTests == 3       \* testSSHConnection calls over a behaviour

\* Program constants

RemotePort == 18789     \* the default remotePort of startTunnel
ScanWindow == 100       \* findAvailablePort scans startPort .. startPort + 99

Names   == {"demo", "other"}
CallIds == DOMAIN calls     \* the invocations, numbered in the order they are made
ProcIds == DOMAIN procs     \* invocation c spawns at most one process: process c
Window(startPort) == startPort..(startPort + ScanWindow - 1)

NoTunnel == [proc |-> 0, localPort |-> 0]
NoProc   == [st |-> "none", name |-> "", port |-> 0, exitCode |-> "null", killed |-> FALSE]
\* An invocation: its position (pc), its locals (name, port, result, err) and
\* what it observed, kept for the properties below:
\*   scanned     - the ports its probes found busy
\*   heldAtCall  - the live process of the tunnel last returned for its name, when
\*                 it was made (0: none)
\*   peers       - the invocations for the same name in flight when it was made
\*   settled     - what its process was at the end of the settle interval
IdleCall == [pc |-> "idle", name |-> "", port |-> 0, scanned |-> {},
             result |-> NoTunnel, err |-> "", heldAtCall |-> 0, peers |-> {},
             settled |-> "no"]

coreVars       == <<activeTunnels, procs, calls, extBusy, held, conn, ops, peer, hist,
                    dstate, run, deployState>>
othersOfQuery  == <<conn, ops, peer, hist, dstate, run, deployState, disk, outcome,
                    host, prov, sess, ui, poll, dv, keys, ask, test>>
othersOfTunnel == <<got, othersOfQuery>>
othersOfSSH    == <<activeTunnels, procs, calls, extBusy, held, got, dstate, run,
                    deployState, disk, outcome, host, prov, sess, ui, poll, dv, keys, ask, test>>
othersOfRun    == <<activeTunnels, procs, calls, extBusy, held, got, conn, ops, peer, hist,
                    disk, outcome, host, prov, sess, ui, poll, dv, keys, ask, test>>
othersOfStore  == <<activeTunnels, procs, calls, extBusy, held, got, conn, ops, peer, hist,
                    run, deployState, host, prov, sess, ui, poll, dv, keys, ask, test>>
othersOfSteps  == <<coreVars, got, disk, outcome, sess, ui, poll, dv, keys, ask, test>>
othersOfViews  == <<coreVars, got, disk, outcome, host, prov, poll, dv, keys, ask, test>>
othersOfPoll   == <<coreVars, got, disk, outcome, host, prov, sess, ui, dv, keys, ask, test>>
othersOfDV     == <<coreVars, got, disk, outcome, host, prov, sess, ui, poll, keys, ask, test>>
othersOfKeys   == <<coreVars, got, disk, outcome, host, prov, sess, ui, poll, dv, ask, test>>
othersOfAsk    == <<coreVars, got, disk, outcome, host, prov, sess, ui, poll, dv, keys, test>>
othersOfTest   == <<coreVars, got, disk, outcome, host, prov, sess, ui, poll, dv, keys, ask>>

----------------------------------------------------------------------------
\* ChildProcess, as the registry reads it

\* proc.exitCode !== null || proc.killed   (tunnel.ts:94, 118, 131)
ProcDead(p) == procs[p].exitCode # "null" \/ procs[p].killed

\* the operating-system process still exists (it holds its port if it bound it)
ProcRunning(p) == procs[p].st \in {"starting", "bound"}

\* Ports on which a listen() would fail now
BoundPorts == extBusy \cup {procs[p].port : p \in {q \in ProcIds : procs[q].st = "bound"}}

\* isPortAvailable(port): the probe server listens iff nobody holds the port
isPortAvailable(port) == port \notin BoundPorts

----------------------------------------------------------------------------
\* getTunnel(deploymentName): the entry if its process is alive, else null;
\* a stale entry is deleted on the way.

getTunnelResult_Inverted(d) ==
    LET tunnel == activeTunnels[d]
    IN  IF tunnel # NoTunnel /\ ProcDead(tunnel.proc) THEN tunnel ELSE NoTunnel

getTunnelResult(d) ==
    LET tunnel == activeTunnels[d]
    IN  IF tunnel # NoTunnel /\ ~ProcDead(tunnel.proc) THEN tunnel ELSE NoTunnel

getTunnelMap(d) ==
    IF getTunnelResult(d) = NoTunnel THEN [activeTunnels EXCEPT ![d] = NoTunnel]
    ELSE activeTunnels

NoQuery == [op |-> "none", name |-> "", result |-> {}]

\* getTunnel(deploymentName), called by a view: the result as the set of the
\* tunnels returned, empty for null
GetTunnel(d) ==
    /\ got' = [op |-> "getTunnel", name |-> d, result |-> {getTunnelResult(d)} \ {NoTunnel}]
    /\ activeTunnels' = getTunnelMap(d)
    /\ UNCHANGED <<procs, calls, extBusy, held>>
    /\ UNCHANGED othersOfQuery

\* getActiveTunnels(): the entries whose process is dead are deleted, the
\* values left are returned
GetActiveTunnels ==
    /\ activeTunnels' = [d \in Names |->
            IF activeTunnels[d] # NoTunnel /\ ProcDead(activeTunnels[d].proc)
            THEN NoTunnel ELSE activeTunnels[d]]
    /\ got' = [op |-> "getActiveTunnels", name |-> "",
                result |-> {activeTunnels'[d] : d \in Names} \ {NoTunnel}]
    /\ UNCHANGED <<procs, calls, extBusy, held>>
    /\ UNCHANGED othersOfQuery

----------------------------------------------------------------------------
\* findAvailablePort(startPort)

ScanLimit_Short(startPort) == startPort + ScanWindow - 1

\* for (let port = startPort; port < startPort + 100; port++)
ScanLimit(startPort) == startPort + ScanWindow

\* The probes of ports held by foreign listeners fail whatever else happens
\* (extBusy is fixed by Init), so a run of them is taken together with the
\* probe that follows: the first port from `port` on that no foreign listener
\* holds, or `limit` when there is none.
RECURSIVE SkipForeign(_, _)
SkipForeign(port, limit) ==
    IF port < limit /\ port \in extBusy THEN SkipForeign(port + 1, limit) ELSE port

\* One stretch of the loop from the cursor `port`:
\*   "none"  - the loop ran off its range: the throw of line 41
\*   "found" - isPortAvailable(q) was true: return q
\*   "busy"  - isPortAvailable(q) was false, the loop goes on at q + 1
findAvailablePortStep(startPort, port) ==
    LET limit == ScanLimit(startPort)
        q     == SkipForeign(port, limit)
    IN  IF q >= limit THEN [kind |-> "none", port |-> q, seen |-> port..(q - 1)]
        ELSE IF isPortAvailable(q) THEN [kind |-> "found", port |-> q, seen |-> port..(q - 1)]
        ELSE [kind |-> "busy", port |-> q + 1, seen |-> port..q]

----------------------------------------------------------------------------
\* startTunnel(deploymentName, serverIp, remotePort = 18789)

SlotFree(c) == calls[c].pc = "idle" /\ \A o \in CallIds : o < c => calls[o].pc # "idle"
InFlight(c) == calls[c].pc \in {"probing", "settling"}
Peers(d)    == {o \in CallIds : InFlight(o) /\ calls[o].name = d}

\* the process a later call should be handed: the one last returned for d, if alive
HeldAlive(d) == IF held[d] # 0 /\ ~ProcDead(held[d]) THEN held[d] ELSE 0

\* Lines 53-57: the synchronous head of the call, up to the first await.
StartTunnel(c, d) ==
    /\ SlotFree(c)
    /\ LET existing == getTunnelResult(d)
       IN  /\ activeTunnels' = getTunnelMap(d)
           /\ IF existing # NoTunnel
              THEN /\ calls' = [calls EXCEPT ![c] =
                            [IdleCall EXCEPT !.pc = "returned", !.name = d,
                                             !.result = existing,
                                             !.heldAtCall = HeldAlive(d),
                                             !.peers = Peers(d)]]
                   /\ held' = [held EXCEPT ![d] = existing.proc]
              ELSE /\ calls' = [calls EXCEPT ![c] =
                            [IdleCall EXCEPT !.pc = "probing", !.name = d,
                                             !.port = RemotePort,
                                             !.heldAtCall = HeldAlive(d),
                                             !.peers = Peers(d)]]
                   /\ held' = held
    /\ UNCHANGED <<procs, extBusy>>
    /\ UNCHANGED othersOfTunnel

\* Lines 57-92: the loop of findAvailablePort; once a port is found, the spawn,
\* the registry entry and the exit handler, up to the settle timer.
ProbeStep(c) ==
    /\ calls[c].pc = "probing"
    /\ LET d == calls[c].name
           r == findAvailablePortStep(RemotePort, calls[c].port)
       IN  CASE r.kind = "none" ->
                  /\ calls' = [calls EXCEPT ![c].pc = "threw", ![c].err = "NoPort",
                                            ![c].port = r.port,
                                            ![c].scanned = @ \cup (r.seen \cap BoundPorts)]
                  /\ UNCHANGED <<activeTunnels, procs>>
             [] r.kind = "busy" ->
                  /\ calls' = [calls EXCEPT ![c].port = r.port,
                                            ![c].scanned = @ \cup (r.seen \cap BoundPorts)]
                  /\ UNCHANGED <<activeTunnels, procs>>
             [] r.kind = "found" ->
                  /\ procs' = [procs EXCEPT ![c] =
                        [st |-> "starting", name |-> d, port |-> r.port,
                         exitCode |-> "null", killed |-> FALSE]]
                  /\ activeTunnels' = [activeTunnels EXCEPT ![d] =
                        [proc |-> c, localPort |-> r.port]]
                  /\ calls' = [calls EXCEPT ![c].pc = "settling", ![c].port = r.port,
                                            ![c].scanned = @ \cup (r.seen \cap BoundPorts)]
    /\ UNCHANGED <<extBusy, held>>
    /\ UNCHANGED othersOfTunnel

SettleFailed_ExitOnly(p) == procs[p].exitCode # "null"

\* Line 94: proc.exitCode !== null || proc.killed
SettleFailed(p) == ProcDead(p)

\* Lines 94-99: after the settle interval.
SettleDone(c) ==
    /\ calls[c].pc = "settling"
    /\ LET d == calls[c].name
           p == c
           s == IF procs[p].st = "gone" \/ procs[p].killed THEN "dead" ELSE "alive"
       IN  IF SettleFailed(p)
           THEN /\ activeTunnels' = [activeTunnels EXCEPT ![d] = NoTunnel]
                /\ calls' = [calls EXCEPT ![c].pc = "threw", ![c].err = "Settle",
                                          ![c].settled = s]
                /\ held' = held
           ELSE /\ activeTunnels' = activeTunnels
                /\ calls' = [calls EXCEPT ![c].pc = "returned", ![c].settled = s,
                                          ![c].result = [proc |-> p, localPort |-> calls[c].port]]
                /\ held' = [held EXCEPT ![d] = p]
    /\ UNCHANGED <<procs, extBusy>>
    /\ UNCHANGED othersOfTunnel

----------------------------------------------------------------------------
\* The forwarding process (ssh -N -L ... -o ExitOnForwardFailure=yes)

\* ssh has authenticated and binds its local port
ProcBind(p) ==
    /\ procs[p].st = "starting"
    /\ ~procs[p].killed
    /\ procs[p].port \notin BoundPorts
    /\ procs' = [procs EXCEPT ![p].st = "bound"]
    /\ UNCHANGED <<activeTunnels, calls, extBusy, held>>
    /\ UNCHANGED othersOfTunnel

\* proc.on("exit", () => activeTunnels.delete(deploymentName))   (lines 87-89)
ExitHandler(p) == [activeTunnels EXCEPT ![procs[p].name] = NoTunnel]

\* The process ends: on its own (server unreachable, forward refused, link
\* lost: exit status 255) or by the signal of an earlier kill() (exitCode
\* stays null, the signal is reported instead).  The exit event runs the
\* handler the call registered.
ProcExit(p) ==
    /\ ProcRunning(p)
    /\ procs' = [procs EXCEPT ![p].st = "gone",
                              ![p].exitCode = IF procs[p].killed THEN "null" ELSE "255"]
    /\ activeTunnels' = ExitHandler(p)
    /\ UNCHANGED <<calls, extBusy, held>>
    /\ UNCHANGED othersOfTunnel

Kill_None(ps, targets) == ps

\* tunnel.process.kill(): the signal is sent and proc.killed set if the process
\* still exists; the process ends, and its exit event arrives, later.
Kill(ps, targets) ==
    [p \in ProcIds |-> IF p \in targets /\ ps[p].st \in {"starting", "bound"}
                       THEN [ps[p] EXCEPT !.killed = TRUE] ELSE ps[p]]

\* stopTunnel(deploymentName)
StopTunnel(d) ==
    /\ LET tunnel == activeTunnels[d]
       IN  IF tunnel # NoTunnel
           THEN /\ procs' = Kill(procs, {tunnel.proc})
                /\ activeTunnels' = [activeTunnels EXCEPT ![d] = NoTunnel]
           ELSE UNCHANGED <<procs, activeTunnels>>
    /\ held' = [held EXCEPT ![d] = 0]
    /\ UNCHANGED <<calls, extBusy>>
    /\ UNCHANGED othersOfTunnel

\* stopAllTunnels()
StopAllTunnels ==
    /\ procs' = Kill(procs, {activeTunnels[d].proc : d \in {n \in Names : activeTunnels[n] # NoTunnel}})
    /\ activeTunnels' = [d \in Names |-> NoTunnel]
    /\ held' = [d \in Names |-> 0]
    /\ UNCHANGED <<calls, extBusy>>
    /\ UNCHANGED othersOfTunnel

----------------------------------------------------------------------------
\* SSHConnection (services/ssh.ts)

NewConn == [connected |-> FALSE,    \* this.connected
            client    |-> "new",    \* the ssh2 Client: new, handshaking, ready, ended, dead
            pc        |-> "idle",   \* connect(): idle, attempting, delaying, done, threw
            retries   |-> 0,
            attempt   |-> 0,        \* the loop variable of connect()
            lastError |-> "null",
            thrown    |-> "",       \* the message connect() threw with
            timers    |-> {}]       \* attempts whose 30 s timer is pending

\* errLog: the error each failed attempt reported, in order; attempts: the
\* attemptConnect() calls made; delays: the waits of delayMs taken; live: the
\* last of "connect succeeded" / "disconnect()" was a success
NewHist == [errLog |-> <<>>, attempts |-> 0, delays |-> 0, live |-> FALSE]

\* status: history, the exit status the channel closed with ("null": none)
NoOp == [pc |-> "none", kind |-> "", err |-> "", code |-> "", sent |-> FALSE,
         liveAtCall |-> FALSE, status |-> ""]

OpIds       == DOMAIN ops
OpKinds     == {"exec", "execStream", "shell"}
ConnectErrs == {"ECONNREFUSED", "EHOSTUNREACH"}

\* attemptConnect(): arm the timer, register the listeners, client.connect(config)
attemptConnect(c, k) ==
    [c EXCEPT !.pc = "attempting", !.attempt = k, !.client = "handshaking",
              !.timers = @ \cup {k}]

\* lastError?.message
Message(e) == IF e = "null" THEN "undefined" ELSE e

\* attempt++ and the loop test attempt <= retries: the next attemptConnect(),
\* or the throw of line 217 with the last error's message
loopNext(c) ==
    IF c.attempt + 1 <= c.retries
    THEN attemptConnect(c, c.attempt + 1)
    ELSE [c EXCEPT !.pc = "threw", !.thrown = Message(c.lastError)]

\* what the step from c to c2 adds to the history
histStep(h, c, c2) ==
    [h EXCEPT !.delays = IF c2.pc = "delaying" /\ c.pc # "delaying" THEN @ + 1 ELSE @,
              !.attempts = IF c2.attempt # c.attempt THEN @ + 1 ELSE @]

\* connect(retries, delayMs), up to the first await
Connect(r) ==
    /\ conn.pc = "idle"
    /\ conn' = loopNext([conn EXCEPT !.retries = r])
    /\ hist' = histStep(hist, conn, conn')
    /\ UNCHANGED <<ops, peer>>
    /\ UNCHANGED othersOfSSH

\* client.on("ready"): every listener registered so far clears its timer and
\* resolves; connect() sets this.connected and returns.
AttemptReady ==
    /\ conn.pc = "attempting"
    /\ conn.client = "handshaking"
    /\ conn' = [conn EXCEPT !.client = "ready", !.timers = {}, !.connected = TRUE,
                            !.pc = "done"]
    /\ hist' = [hist EXCEPT !.live = TRUE]
    /\ UNCHANGED <<ops, peer>>
    /\ UNCHANGED othersOfSSH

WaitsAfter_Always(attempt, retries) == attempt <= retries

\* if (attempt < retries) await delay
WaitsAfter(attempt, retries) == attempt < retries

\* The catch block of connect(): the error is kept, then the wait, or straight
\* on to the next round of the loop.
connectCatch(c, e) ==
    IF WaitsAfter(c.attempt, c.retries)
    THEN [c EXCEPT !.lastError = e, !.pc = "delaying"]
    ELSE loopNext([c EXCEPT !.lastError = e])

histCatch(h, c, e) == histStep([h EXCEPT !.errLog = Append(@, e)], c, connectCatch(c, e))

AttemptError_TimerKept(e) ==
    /\ conn.pc = "attempting"
    /\ conn.client = "handshaking"
    /\ LET c == [conn EXCEPT !.client = "dead"]
       IN  /\ conn' = connectCatch(c, e)
           /\ hist' = histCatch(hist, c, e)
    /\ UNCHANGED <<ops, peer>>
    /\ UNCHANGED othersOfSSH

\* client.on("error") during the handshake
AttemptError(e) ==
    /\ conn.pc = "attempting"
    /\ conn.client = "handshaking"
    /\ LET c == [conn EXCEPT !.client = "dead", !.timers = {}]
       IN  /\ conn' = connectCatch(c, e)
           /\ hist' = histCatch(hist, c, e)
    /\ UNCHANGED <<ops, peer>>
    /\ UNCHANGED othersOfSSH

\* The timer of attempt k fires: client.end(); reject(new Error("Connection timeout"))
TimerFire(k) ==
    /\ k \in conn.timers
    /\ LET c == [conn EXCEPT !.client = "ended", !.timers = @ \ {k}]
       IN  IF conn.pc = "attempting" /\ conn.attempt = k
           THEN /\ conn' = connectCatch(c, "Connection timeout")
                /\ hist' = histCatch(hist, c, "Connection timeout")
           ELSE /\ conn' = c
                /\ hist' = hist
    /\ UNCHANGED <<ops, peer>>
    /\ UNCHANGED othersOfSSH

\* the wait of delayMs is over
DelayDone ==
    /\ conn.pc = "delaying"
    /\ conn' = loopNext(conn)
    /\ hist' = histStep(hist, conn, conn')
    /\ UNCHANGED <<ops, peer>>
    /\ UNCHANGED othersOfSSH

Disconnect_EndOnly ==
    /\ conn' = [conn EXCEPT !.client = "ended"]
    /\ hist' = [hist EXCEPT !.live = FALSE]
    /\ UNCHANGED <<ops, peer>>
    /\ UNCHANGED othersOfSSH

\* disconnect(): this.client.end(); this.connected = false
Disconnect ==
    /\ conn' = [conn EXCEPT !.client = "ended", !.connected = FALSE]
    /\ hist' = [hist EXCEPT !.live = FALSE]
    /\ UNCHANGED <<ops, peer>>
    /\ UNCHANGED othersOfSSH

NotConnected_Never(c) == FALSE

\* if (!this.connected) throw new Error("SSH not connected")
NotConnected(c) == ~c.connected

OpFree(o) == ops[o].pc = "none" /\ \A q \in OpIds : q < o => ops[q].pc # "none"

\* exec(command), execStream(command, ...), shell(...): the guard, then
\* client.exec / client.shell, which itself refuses when the transport is down.
Exec(o, kind) ==
    /\ OpFree(o)
    /\ ops' = [ops EXCEPT ![o] =
          IF NotConnected(conn)
          THEN [NoOp EXCEPT !.pc = "rejected", !.kind = kind, !.err = "SSH not connected",
                            !.liveAtCall = hist.live]
          ELSE IF conn.client # "ready"
          THEN [NoOp EXCEPT !.pc = "rejected", !.kind = kind, !.err = "Not connected",
                            !.liveAtCall = hist.live]
          ELSE [NoOp EXCEPT !.pc = "opening", !.kind = kind, !.sent = TRUE,
                            !.liveAtCall = hist.live]]
    /\ UNCHANGED <<conn, peer, hist>>
    /\ UNCHANGED othersOfSSH

\* The callback of client.exec / client.shell: err, or the stream
OpCallback(o, ok) ==
    /\ ops[o].pc = "opening"
    /\ conn.client = "ready"
    /\ ~peer.silent
    /\ ops' = [ops EXCEPT ![o] =
          IF ~ok THEN [@ EXCEPT !.pc = "rejected", !.err = "open failed"]
          ELSE IF @.kind = "shell" THEN [@ EXCEPT !.pc = "resolved"]
          ELSE [@ EXCEPT !.pc = "running"]]
    /\ UNCHANGED <<conn, peer, hist>>
    /\ UNCHANGED othersOfSSH

\* resolve({ stdout, stderr, code: code ?? 0 })   /   resolve(code ?? 0)
CodeOrZero(code) == IF code = "null" THEN "0" ELSE code

\* stream.on("close", code): the command ended with an exit status, or without one
OpClose(o, code) ==
    /\ ops[o].pc = "running"
    /\ conn.client = "ready"
    /\ ~peer.silent
    /\ ops' = [ops EXCEPT ![o].pc = "resolved", ![o].code = CodeOrZero(code),
                           ![o].status = code]
    /\ UNCHANGED <<conn, peer, hist>>
    /\ UNCHANGED othersOfSSH

\* The transport is gone: the Client fails the channel requests that wait for
\* their callback and closes the open channels, with no exit status.
ChannelLost(o) ==
    /\ ops[o].pc \in {"opening", "running"}
    /\ conn.client \in {"ended", "dead"}
    /\ ops' = [ops EXCEPT ![o] =
          IF @.pc = "opening" THEN [@ EXCEPT !.pc = "rejected", !.err = "No response from server"]
          ELSE [@ EXCEPT !.pc = "resolved", !.code = CodeOrZero("null"), !.status = "null"]]
    /\ UNCHANGED <<conn, peer, hist>>
    /\ UNCHANGED othersOfSSH

----------------------------------------------------------------------------
\* The keepalive of createSSHConnection's configuration

KeepaliveInterval == 10000      \* keepaliveInterval: 10000
KeepaliveCountMax == 3          \* keepaliveCountMax: 3

KeepaliveOff == FALSE

\* the Client probes the server only when an interval is configured
KeepaliveEnabled == KeepaliveInterval > 0

\* the server stops answering
ServerSilent ==
    /\ conn.client = "ready"
    /\ ~peer.silent
    /\ peer' = [peer EXCEPT !.silent = TRUE]
    /\ UNCHANGED <<conn, ops, hist>>
    /\ UNCHANGED othersOfSSH

\* A keepalive interval passes with no reply to the last probe; after
\* keepaliveCountMax misses in a row the Client gives the transport up.
KeepaliveMiss ==
    /\ KeepaliveEnabled
    /\ conn.client = "ready"
    /\ peer.silent
    /\ IF peer.missed + 1 >= KeepaliveCountMax
       THEN /\ conn' = [conn EXCEPT !.client = "dead", !.timers = {}]
            /\ peer' = [peer EXCEPT !.missed = 0]
       ELSE /\ conn' = conn
            /\ peer' = [peer EXCEPT !.missed = @ + 1]
    /\ UNCHANGED <<ops, hist>>
    /\ UNCHANGED othersOfSSH

\* the server closes the connection, or the link breaks with an error
TransportLost ==
    /\ conn.client = "ready"
    /\ conn' = [conn EXCEPT !.client = "dead", !.timers = {}]
    /\ UNCHANGED <<ops, peer, hist>>
    /\ UNCHANGED othersOfSSH

InitSSH ==
    /\ conn = NewConn
    /\ ops = [o \in 1..MaxOps |-> NoOp]
    /\ peer = [silent |-> FALSE, missed |-> 0]
    /\ hist = NewHist

NextSSH ==
    \/ \E r \in 0..MaxRetries : Connect(r)
    \/ AttemptReady
    \/ \E e \in ConnectErrs : AttemptError(e)
    \/ \E k \in 1..MaxRetries : TimerFire(k)
    \/ DelayDone
    \/ Disconnect
    \/ \E o \in OpIds, kind \in OpKinds : Exec(o, kind)
    \/ \E o \in OpIds, ok \in BOOLEAN : OpCallback(o, ok)
    \/ \E o \in OpIds, code \in {"0", "1", "null"} : OpClose(o, code)
    \/ \E o \in OpIds : ChannelLost(o)
    \/ ServerSilent
    \/ KeepaliveMiss
    \/ TransportLost

----------------------------------------------------------------------------
\* The persisted deployment state (readDeploymentState, updateDeploymentState)

NoFile == [missing |-> TRUE]

\* the state createDeployment writes, and readDeploymentState's default
InitialState == [status |-> "initialized", checkpoints |-> <<>>, updatedAt |-> 0]

readDeploymentState_Initial(file) == InitialState

readDeploymentState_NoStatus(file) ==
    IF file = NoFile THEN InitialState ELSE [file EXCEPT !.status = "initialized"]

\* readDeploymentState(name): the parsed file, or the initial state without one
readDeploymentState(file) == IF file = NoFile THEN InitialState ELSE file

MergeState_CurrentWins(currentState, update) ==
    [f \in (DOMAIN currentState) \cup (DOMAIN update) \cup {"updatedAt"} |->
        IF f = "updatedAt" THEN currentState.updatedAt + 1
        ELSE IF f \in DOMAIN currentState THEN currentState[f]
        ELSE update[f]]

\* { ...currentState, ...update, updatedAt: new Date().toISOString() }
\* A record is a function of its field names; the time is the count of writes.
MergeState(currentState, update) ==
    [f \in (DOMAIN currentState) \cup (DOMAIN update) \cup {"updatedAt"} |->
        IF f = "updatedAt" THEN currentState.updatedAt + 1
        ELSE IF f \in DOMAIN update THEN update[f]
        ELSE currentState[f]]

updateDeploymentState_FromInitial(file, update) == MergeState(InitialState, update)

\* updateDeploymentState(name, update): the new content of the file
updateDeploymentState(file, update) == MergeState(readDeploymentState(file), update)

----------------------------------------------------------------------------
\* The provisioning run (startDeployment) and the view that starts it

NumSteps == 13      \* the fixed list of step descriptors
StepIds  == 1..NumSteps

Done(state) == {state.checkpoints[i] : i \in DOMAIN state.checkpoints}

\* the first step from `from` on that is not checkpointed, NumSteps + 1 if none
RECURSIVE NextStep(_, _)
NextStep(state, from) ==
    IF from > NumSteps \/ from \notin Done(state) THEN from
    ELSE NextStep(state, from + 1)

IdleRun == [pc |-> "idle", n |-> 0, cursor |-> 0, executed |-> <<>>, failedAt |-> 0,
            prevFailedAt |-> 0, startState |-> InitialState]

\* run(): load the state; a deployed deployment is a success with nothing done,
\* any other enters provisioning and runs from its first missing checkpoint.
RunStart ==
    /\ run.pc \in {"idle", "succeeded", "failed"}
    /\ run.n < MaxRuns
    /\ LET state == readDeploymentState(dstate)
           r     == [IdleRun EXCEPT !.n = run.n + 1, !.startState = dstate,
                                    !.prevFailedAt = run.failedAt]
       IN  IF state.status = "deployed"
           THEN /\ run' = [r EXCEPT !.pc = "succeeded"]
                /\ dstate' = dstate
                /\ deployState' = "success"
           ELSE /\ run' = [r EXCEPT !.pc = "running", !.cursor = NextStep(state, 1)]
                /\ dstate' = updateDeploymentState(dstate, [status |-> "provisioning"])
                /\ deployState' = "deploying"
    /\ UNCHANGED othersOfRun

\* One step runs to its end: a success is checkpointed and persisted at once; a
\* failure is recorded with status failed and raised, and the view shows it.
RunStep(ok) ==
    /\ run.pc = "running"
    /\ run.cursor <= NumSteps
    /\ LET k     == run.cursor
           state == readDeploymentState(dstate)
       IN  IF ok
           THEN /\ dstate' = updateDeploymentState(dstate,
                                [checkpoints |-> Append(state.checkpoints, k)])
                /\ run' = [run EXCEPT !.executed = Append(@, k),
                                      !.cursor = NextStep(dstate', k + 1)]
                /\ deployState' = deployState
           ELSE /\ dstate' = updateDeploymentState(dstate,
                                [status |-> "failed", lastError |-> "step failed"])
                /\ run' = [run EXCEPT !.executed = Append(@, k), !.failedAt = k,
                                      !.pc = "failed"]
                /\ deployState' = "failed"
    /\ UNCHANGED othersOfRun

\* After the last step: status deployed, the connection metadata, persisted;
\* runDeployment's await returns and the view shows success.
RunComplete ==
    /\ run.pc = "running"
    /\ run.cursor > NumSteps
    /\ dstate' = updateDeploymentState(dstate,
                    [status |-> "deployed", serverIp |-> "ip", deployedAt |-> dstate.updatedAt + 1])
    /\ run' = [run EXCEPT !.pc = "succeeded"]
    /\ deployState' = "success"
    /\ UNCHANGED othersOfRun

InitRun ==
    /\ dstate = InitialState
    /\ run = IdleRun
    /\ deployState = "deploying"

NextRun ==
    \/ RunStart
    \/ \E ok \in BOOLEAN : RunStep(ok)
    \/ RunComplete

\* The deployment's directory on disk and the key files in it.  A mode is the
\* set of its permission bits; the process creates files under its umask.

Absent == [absent |-> TRUE]

Mode0600 == {"ur", "uw"}
Mode0644 == {"ur", "uw", "gr", "or"}
Mode0666 == {"ur", "uw", "gr", "gw", "or", "ow"}
Mode0700 == {"ur", "uw", "ux"}

\* the umasks 000, 022 and 077
Umasks == { {}, {"gw", "ow"}, {"gr", "gw", "gx", "or", "ow", "ox"} }

\* base: ~/.clawcontrol/deployments exists; dir: the deployment's directory
\* exists; config: config.json; sshDir: the ssh directory; priv, pub: the key
\* files.  The state file, state.json, is dstate.
FreshDisk(umask) == [umask |-> umask, base |-> FALSE, dir |-> FALSE, config |-> Absent,
                     sshDir |-> Absent, priv |-> Absent, pub |-> Absent]

\* the last call: its name and what it threw ("": it returned); for
\* saveSSHKeyPair also the key files it found
NoCall == [op |-> "none", threw |-> ""]

\* mkdirSync(path, { recursive: true, mode }): creates what is missing
mkdirSync(dir, mode, umask) == IF dir = Absent THEN [mode |-> mode \ umask] ELSE dir

\* writeFileSync(path, data, { mode }): the content is replaced; the mode, less
\* the umask, is given only to a file the call creates
writeFileSync(file, data, mode, umask) ==
    IF file = Absent THEN [mode |-> mode \ umask, data |-> data]
    ELSE [file EXCEPT !.data = data]

\* chmodSync(path, mode)
chmodSync(file, mode) == [file EXCEPT !.mode = mode]

\* ensureConfigDir(): the two base directories are made if missing
ensureConfigDir(d) == [d EXCEPT !.base = TRUE]

\* The configs the wizard may hand over: a provider, a creation time
Providers == {"hetzner", "digitalocean"}
Configs == [provider : Providers \cup {""}, createdAt : {1, 2}]

\* DeploymentConfigSchema.parse(config) does not throw
DeploymentConfigSchema(config) == config.provider \in Providers

Statuses == {"initialized", "provisioning", "deployed", "failed"}

\* what a damaged state file holds
Malformed == [malformed |-> TRUE]

\* DeploymentStateSchema.parse(state) does not throw
DeploymentStateSchema(state) ==
    /\ {"status", "checkpoints", "updatedAt"} \subseteq DOMAIN state
    /\ state.status \in Statuses

validatedState_Unchecked(newState) == TRUE

\* const validatedState = DeploymentStateSchema.parse(newState) does not throw
validatedState(newState) == DeploymentStateSchema(newState)

\* deleteDeployment(name): throws if the directory is missing, else removes it
\* and all that is in it; the list view offers it for a deployment that is not
\* running
DeleteDeployment ==
    /\ run.pc # "running"
    /\ IF ~disk.dir
       THEN /\ outcome' = [op |-> "deleteDeployment", threw |-> "not found"]
            /\ UNCHANGED <<disk, dstate>>
       ELSE /\ outcome' = [op |-> "deleteDeployment", threw |-> ""]
            /\ disk' = [FreshDisk(disk.umask) EXCEPT !.base = disk.base]
            /\ dstate' = NoFile
    /\ UNCHANGED <<run, deployState, othersOfStore>>

CreateDeployment_MkdirFirst(config) ==
    /\ LET d == ensureConfigDir(disk)
           made == [d EXCEPT !.dir = TRUE,
                             !.sshDir = mkdirSync(d.sshDir, Mode0700, d.umask)]
       IN  IF d.dir
           THEN /\ outcome' = [op |-> "createDeployment", threw |-> "already exists"]
                /\ disk' = d
                /\ dstate' = dstate
           ELSE IF ~DeploymentConfigSchema(config)
           THEN /\ outcome' = [op |-> "createDeployment", threw |-> "validation"]
                /\ disk' = made
                /\ dstate' = dstate
           ELSE /\ outcome' = [op |-> "createDeployment", threw |-> ""]
                /\ disk' = [made EXCEPT !.config = config]
                /\ dstate' = InitialState
    /\ UNCHANGED <<run, deployState, othersOfStore>>

\* createDeployment(config): after ensureConfigDir, throws if the directory
\* exists, then if the config fails validation; else makes the directories and
\* writes the config and the initial state
CreateDeployment(config) ==
    /\ LET d == ensureConfigDir(disk)
       IN  IF d.dir
           THEN /\ outcome' = [op |-> "createDeployment", threw |-> "already exists"]
                /\ disk' = d
                /\ dstate' = dstate
           ELSE IF ~DeploymentConfigSchema(config)
           THEN /\ outcome' = [op |-> "createDeployment", threw |-> "validation"]
                /\ disk' = d
                /\ dstate' = dstate
           ELSE /\ outcome' = [op |-> "createDeployment", threw |-> ""]
                /\ disk' = [d EXCEPT !.dir = TRUE,
                                     !.sshDir = mkdirSync(d.sshDir, Mode0700, d.umask),
                                     !.config = config]
                /\ dstate' = InitialState
    /\ UNCHANGED <<run, deployState, othersOfStore>>

\* saveSSHKeyPair(deploymentName, keyPair)
SaveSSHKeyPair(pair) ==
    /\ disk' = [disk EXCEPT
            !.base = TRUE,
            !.dir = TRUE,
            !.sshDir = mkdirSync(disk.sshDir, Mode0700, disk.umask),
            !.priv = chmodSync(writeFileSync(disk.priv, <<"private", pair>>,
                                             Mode0600, disk.umask), Mode0600),
            !.pub = writeFileSync(disk.pub, <<"public", pair>>, Mode0644, disk.umask)]
    /\ outcome' = [op |-> "saveSSHKeyPair", threw |-> "",
                    found |-> [priv |-> disk.priv, pub |-> disk.pub]]
    /\ UNCHANGED <<dstate, run, deployState, othersOfStore>>

\* The updates callers may pass: a status, a status outside the schema, a
\* checkpoint list, an error with its status, a time of the caller's
Updates == { [status |-> "provisioning"], [status |-> "bogus"], [checkpoints |-> <<1>>],
             [status |-> "failed", lastError |-> "boom"], [updatedAt |-> 0] }

\* updateDeploymentState(name, update), as any caller may make it: the read
\* throws on a damaged file, the parse on a merged state outside the schema,
\* the write without the directory
UpdateDeploymentState(update) ==
    /\ IF dstate \in {NoFile, Malformed} THEN TRUE ELSE dstate.updatedAt < MaxUpdates
    /\ IF dstate # NoFile /\ ~DeploymentStateSchema(dstate)
       THEN /\ outcome' = [op |-> "updateDeploymentState", threw |-> "read"]
            /\ dstate' = dstate
       ELSE IF ~validatedState(updateDeploymentState(dstate, update))
       THEN /\ outcome' = [op |-> "updateDeploymentState", threw |-> "validation"]
            /\ dstate' = dstate
       ELSE IF ~disk.dir
       THEN /\ outcome' = [op |-> "updateDeploymentState", threw |-> "ENOENT"]
            /\ dstate' = dstate
       ELSE /\ outcome' = [op |-> "updateDeploymentState", threw |-> ""]
            /\ dstate' = updateDeploymentState(dstate, update)
    /\ UNCHANGED <<disk, run, deployState, othersOfStore>>

\* Outside the program: the user changes the mode of a key file
UserChmod(which, mode) ==
    /\ disk[which] # Absent
    /\ disk' = [disk EXCEPT ![which].mode = mode]
    /\ outcome' = NoCall
    /\ UNCHANGED <<dstate, run, deployState, othersOfStore>>

\* Outside the program: the state file is damaged (a torn write, an edit)
StateFileDamaged ==
    /\ dstate \notin {NoFile, Malformed}
    /\ dstate' = Malformed
    /\ outcome' = NoCall
    /\ UNCHANGED <<disk, run, deployState, othersOfStore>>

\* a deployment that createDeployment made under umask 022
InitDisk ==
    /\ disk = [FreshDisk({"gw", "ow"}) EXCEPT !.base = TRUE, !.dir = TRUE,
                    !.sshDir = [mode |-> Mode0700],
                    !.config = [provider |-> "hetzner", createdAt |-> 1]]
    /\ outcome = NoCall

NextStore ==
    \/ \E config \in Configs : CreateDeployment(config)
    \/ DeleteDeployment
    \/ \E pair \in {"first", "second"} : SaveSSHKeyPair(pair)
    \/ \E update \in Updates : UpdateDeploymentState(update)
    \/ \E which \in {"priv", "pub"}, mode \in {Mode0600, Mode0644, Mode0666} :
            UserChmod(which, mode)
    \/ StateFileDamaged

\* the life of a deployment: runs are made on a deployment that exists
NextState ==
    \/ dstate # NoFile /\ NextRun
    \/ DeleteDeployment
    \/ \E config \in Configs : CreateDeployment(config)

----------------------------------------------------------------------------
\* The views that open connections: StatusView (checkHealth) and LogsView
\* (fetchLogs, by key and by the auto-refresh interval)

\* context.deployments: both deployed, each with a serverIp and saved keys
Deployments == <<"demo", "other">>

NoSess  == [st |-> "none", name |-> "", site |-> ""]
SessIds == DOMAIN sess

\* the state of a view as it mounts (useState / useRef initial values)
NewUI == [screen |-> "home", selectedIndex |-> 0, viewState |-> "selecting",
          autoRefresh |-> FALSE, interval |-> FALSE, sshRef |-> 0, reading |-> 0]

\* sshRef.current?.isConnected()
isConnected(s) == s # 0 /\ sess[s].st = "live"

HasFreshSess == \E s \in SessIds : sess[s].st = "none"
FreshSess    == CHOOSE s \in SessIds :
                    sess[s].st = "none" /\ \A t \in SessIds : t < s => sess[t].st # "none"

\* connectToDeployment(name, ip) is called: a new SSHConnection starts connecting
connectToDeployment(name, site) ==
    [sess EXCEPT ![FreshSess] = [st |-> "connecting", name |-> name, site |-> site]]

\* ssh.disconnect() on the connection a ref holds, if it is connected
disconnectRef(s) == IF isConnected(s) THEN [sess EXCEPT ![s].st = "closed"] ELSE sess

\* the home screen opens a view, which mounts with its initial state
OpenView(v) ==
    /\ ui.screen = "home"
    /\ ui' = [NewUI EXCEPT !.screen = v]
    /\ UNCHANGED <<sess, othersOfViews>>

\* StatusView's useKeyboard handler
StatusKey(key) ==
    /\ ui.screen = "status"
    /\ CASE key = "up" /\ ui.selectedIndex > 0 ->
                ui' = [ui EXCEPT !.selectedIndex = @ - 1] /\ sess' = sess
         [] key = "down" /\ ui.selectedIndex < Len(Deployments) - 1 ->
                ui' = [ui EXCEPT !.selectedIndex = @ + 1] /\ sess' = sess
         [] key = "return" ->
                \* checkHealth(deployments[selectedIndex]), up to its first await
                /\ HasFreshSess
                /\ sess' = connectToDeployment(Deployments[ui.selectedIndex + 1], "status")
                /\ ui' = ui
         [] key = "escape" ->
                ui' = [ui EXCEPT !.screen = "home"] /\ sess' = sess
         [] OTHER -> FALSE
    /\ UNCHANGED othersOfViews

\* fetchLogs(name, ip), up to its first await: it connects unless the ref holds
\* a connected session, and then reads the logs over the ref's session
fetchLogs(u, name) ==
    IF isConnected(u.sshRef)
    THEN /\ u.reading < MaxReads
         /\ ui' = [u EXCEPT !.reading = @ + 1]
         /\ sess' = sess
    ELSE /\ HasFreshSess
         /\ ui' = u
         /\ sess' = connectToDeployment(name, "logs")

\* goBack(): stopAutoRefresh, disconnect and drop the ref, back to the list
goBack ==
    /\ sess' = disconnectRef(ui.sshRef)
    /\ ui' = [ui EXCEPT !.autoRefresh = FALSE, !.interval = FALSE,
                        !.sshRef = IF isConnected(ui.sshRef) THEN 0 ELSE @,
                        !.viewState = "selecting"]

\* LogsView unmounts: the effect's cleanup clears the interval and disconnects
\* the ref's session; a fetchLogs still connecting will only write a dead ref
unmountLogs ==
    /\ ui' = [ui EXCEPT !.screen = "home"]
    /\ sess' = [s \in SessIds |->
                  IF s = ui.sshRef /\ isConnected(s) THEN [sess[s] EXCEPT !.st = "closed"]
                  ELSE IF sess[s].site = "logs" /\ sess[s].st = "connecting"
                       THEN [sess[s] EXCEPT !.site = "unmounted"]
                  ELSE sess[s]]

\* LogsView's useKeyboard handler
LogsKey(key) ==
    /\ ui.screen = "logs"
    /\ LET name == Deployments[ui.selectedIndex + 1]
       IN  CASE ui.viewState = "selecting" /\ key = "up" /\ ui.selectedIndex > 0 ->
                    ui' = [ui EXCEPT !.selectedIndex = @ - 1] /\ sess' = sess
             [] ui.viewState = "selecting" /\ key = "down"
                    /\ ui.selectedIndex < Len(Deployments) - 1 ->
                    ui' = [ui EXCEPT !.selectedIndex = @ + 1] /\ sess' = sess
             [] ui.viewState = "selecting" /\ key = "return" ->
                    fetchLogs([ui EXCEPT !.viewState = "loading"], name)
             [] ui.viewState = "selecting" /\ key = "escape" -> unmountLogs
             [] ui.viewState = "viewing" /\ key = "r" -> fetchLogs(ui, name)
             [] ui.viewState = "viewing" /\ key = "a" ->
                    /\ ui' = [ui EXCEPT !.autoRefresh = ~ui.autoRefresh,
                                        !.interval = ~ui.autoRefresh]
                    /\ sess' = sess
             [] ui.viewState = "viewing" /\ key = "escape" -> goBack
             [] ui.viewState = "error" -> goBack
             [] OTHER -> FALSE
    /\ UNCHANGED othersOfViews

\* the auto-refresh interval fires
LogsTick ==
    /\ ui.screen = "logs"
    /\ ui.interval
    /\ fetchLogs(ui, Deployments[ui.selectedIndex + 1])
    /\ UNCHANGED othersOfViews

\* connection.connect() resolves: checkHealth goes on to isOpenClawRunning;
\* fetchLogs stores the session in the ref and goes on to getOpenClawLogs
SessReady(s) ==
    /\ sess[s].st = "connecting"
    /\ sess' = [sess EXCEPT ![s].st = "live"]
    /\ ui' = IF sess[s].site = "logs"
             THEN [ui EXCEPT !.sshRef = s, !.reading = @ + 1]
             ELSE ui
    /\ UNCHANGED othersOfViews

\* connection.connect() rejects: checkHealth records the failure; fetchLogs
\* shows the error
SessFail(s) ==
    /\ sess[s].st = "connecting"
    /\ sess' = [sess EXCEPT ![s].st = "failed"]
    /\ ui' = IF sess[s].site = "logs" THEN [ui EXCEPT !.viewState = "error"] ELSE ui
    /\ UNCHANGED othersOfViews

\* checkHealth: isOpenClawRunning returned or threw, then ssh.disconnect()
HealthChecked(s) ==
    /\ sess[s].site = "status"
    /\ sess[s].st = "live"
    /\ sess' = [sess EXCEPT ![s].st = "closed"]
    /\ UNCHANGED <<ui, othersOfViews>>

\* fetchLogs: getOpenClawLogs returned (the view shows the logs) or threw
LogsRead(ok) ==
    /\ ui.screen = "logs"
    /\ ui.reading > 0
    /\ ui' = [ui EXCEPT !.reading = @ - 1,
                        !.viewState = IF ok THEN "viewing" ELSE "error"]
    /\ UNCHANGED <<sess, othersOfViews>>

InitViews ==
    /\ sess = [s \in 1..MaxSess |-> NoSess]
    /\ ui = NewUI

NextViews ==
    \/ \E v \in {"status", "logs"} : OpenView(v)
    \/ \E key \in {"up", "down", "return", "escape"} : StatusKey(key)
    \/ \E key \in {"up", "down", "return", "escape", "r", "a"} : LogsKey(key)
    \/ LogsTick
    \/ \E s \in SessIds : SessReady(s)
    \/ \E s \in SessIds : SessFail(s)
    \/ \E s \in SessIds : HealthChecked(s)
    \/ \E ok \in BOOLEAN : LogsRead(ok)

----------------------------------------------------------------------------
\* The polling waits: HetznerClient.waitForServerRunning and waitForAction,
\* waitForSSH, waitForTailscaleAuth.  Time is counted in ticks; a poll takes
\* 0..MaxLag ticks and a sleep its interval plus 0..MaxLag ticks.

WaitKinds == {"server", "action", "ssh", "tailscale"}

\* what one poll observed: the status (or stdout, or BackendState) it read, the
\* exit code of the command, Self.Online, and whether the output parsed
Obs(status, code, online, json) ==
    [status |-> status, code |-> code, online |-> online, json |-> json]

\* getServer / getAction / testSSHConnection / `tailscale status --json`
Observations(kind) ==
    CASE kind = "server" ->
            {Obs(s, 0, TRUE, TRUE) : s \in {"running", "off", "deleting", "initializing", "starting"}}
      [] kind = "action" ->
            {Obs(s, 0, TRUE, TRUE) : s \in {"success", "error", "running"}}
      [] kind = "ssh" ->
            {Obs("ok", 0, TRUE, TRUE), Obs("ok", 1, TRUE, TRUE), Obs("throws", 0, TRUE, TRUE)}
      [] kind = "tailscale" ->
            {Obs("Running", 0, TRUE, TRUE), Obs("Running", 0, FALSE, TRUE),
             Obs("NeedsLogin", 0, FALSE, TRUE), Obs("Running", 0, TRUE, FALSE),
             Obs("Running", 1, TRUE, TRUE)}

\* server.status === "off" || server.status === "deleting"
ServerTerminal_OffOnly(status) == status = "off"

ServerTerminal(status) == status \in {"off", "deleting"}

\* action.status === "error"
ActionFailed_Never(status) == FALSE

ActionFailed(status) == status = "error"

\* testSSHConnection: result.code === 0 && result.stdout.trim() === "ok", and
\* false when connect or exec threw
testSSHConnection(o) == o.status # "throws" /\ o.code = 0 /\ o.status = "ok"

\* statusResult.code === 0, the JSON parses, BackendState === "Running" && Self?.Online
TailscaleAuthenticated(o) == o.code = 0 /\ o.json /\ o.status = "Running" /\ o.online

\* what the loop body does with an observation: "done" returns, an error name
\* throws, "again" sleeps
Classify(kind, o) ==
    CASE kind = "server" ->
            IF o.status = "running" THEN "done"
            ELSE IF ServerTerminal(o.status) THEN "server_not_running"
            ELSE "again"
      [] kind = "action" ->
            IF o.status = "success" THEN "done"
            ELSE IF ActionFailed(o.status) THEN "action_failed"
            ELSE "again"
      [] kind = "ssh" -> IF testSSHConnection(o) THEN "done" ELSE "again"
      [] kind = "tailscale" -> IF TailscaleAuthenticated(o) THEN "done" ELSE "again"

\* the loop condition: Date.now() - startTime < timeoutMs
StillWaiting_Inclusive(now, startTime, timeoutMs) == now - startTime <= timeoutMs

StillWaiting(now, startTime, timeoutMs) == now - startTime < timeoutMs

\* seen: the observations of the polls, in order; startedAt: the elapsed time
\* at which each poll was started
IdleWait == [pc |-> "idle", kind |-> "", timeoutMs |-> 0, pollIntervalMs |-> 0,
             startTime |-> 0, now |-> 0, err |-> "", seen |-> <<>>, startedAt |-> <<>>]

\* the wait is called: const startTime = Date.now()
WaitStart(kind, timeoutMs, pollIntervalMs) ==
    /\ poll.pc = "idle"
    /\ poll' = [IdleWait EXCEPT !.pc = "test", !.kind = kind, !.timeoutMs = timeoutMs,
                                !.pollIntervalMs = pollIntervalMs]
    /\ UNCHANGED <<othersOfPoll>>

\* the while condition is evaluated: a poll is started, or the loop is left
\* and the timeout error thrown
WaitTest ==
    /\ poll.pc = "test"
    /\ poll' = IF StillWaiting(poll.now, poll.startTime, poll.timeoutMs)
               THEN [poll EXCEPT !.pc = "polling",
                                 !.startedAt = Append(@, poll.now - poll.startTime)]
               ELSE [poll EXCEPT !.pc = "threw", !.err = "timeout"]
    /\ UNCHANGED <<othersOfPoll>>

\* the poll returns after `lag` ticks with observation o
PollReturn(o, lag) ==
    /\ poll.pc = "polling"
    /\ o \in Observations(poll.kind)
    /\ LET what == Classify(poll.kind, o)
       IN  poll' = [poll EXCEPT !.now = @ + lag, !.seen = Append(@, o),
                                !.pc = CASE what = "done" -> "returned"
                                         [] what = "again" -> "sleeping"
                                         [] OTHER -> "threw",
                                !.err = IF what \in {"done", "again"} THEN "" ELSE what]
    /\ UNCHANGED <<othersOfPoll>>

\* the poll itself rejects (the API request, ssh.exec): the wait rethrows;
\* testSSHConnection catches every error, so waitForSSH sees only false
PollThrows(lag) ==
    /\ poll.pc = "polling"
    /\ poll.kind # "ssh"
    /\ poll' = [poll EXCEPT !.now = @ + lag, !.pc = "threw", !.err = "poll_failed"]
    /\ UNCHANGED <<othersOfPoll>>

\* await new Promise((resolve) => setTimeout(resolve, pollIntervalMs))
SleepDone(lag) ==
    /\ poll.pc = "sleeping"
    /\ poll' = [poll EXCEPT !.now = @ + poll.pollIntervalMs + lag, !.pc = "test"]
    /\ UNCHANGED <<othersOfPoll>>

InitPoll == poll = IdleWait

NextPoll ==
    \/ \E kind \in WaitKinds, timeoutMs \in 0..MaxTimeout, pollIntervalMs \in 1..MaxInterval :
            WaitStart(kind, timeoutMs, pollIntervalMs)
    \/ WaitTest
    \/ \E kind \in WaitKinds : \E o \in Observations(kind), lag \in 0..MaxLag : PollReturn(o, lag)
    \/ \E lag \in 0..MaxLag : PollThrows(lag)
    \/ \E lag \in 0..MaxLag : SleepDone(lag)

----------------------------------------------------------------------------
\* DeployingView: its state, the callbacks it hands to startDeployment, its
\* keyboard handler and the effect that starts the run.  A set-state call
\* changes `next`; the handler and the callbacks' closures see `shown`, the
\* state of the last render.  The view is followed while it is mounted.

ViewState0 == [deployState |-> "deploying", confirmPrompt |-> 0, terminalResolve |-> 0]

\* a promise handed to the run: by is <<key, deployState>> of the key press
\* whose resolve call settled it
NoReq == [kind |-> "none", run |-> 0, st |-> "none", value |-> "none", by |-> <<>>]
NoViewRun == [pc |-> "none", q |-> 0]

NewDV == [mounted |-> FALSE, shown |-> ViewState0, next |-> ViewState0,
          reqs |-> [q \in 1..MaxReqs |-> NoReq],
          runs |-> [r \in 1..MaxViewRuns |-> NoViewRun]]

ReqIds     == DOMAIN dv.reqs
ViewRunIds == DOMAIN dv.runs

HasFreshReq == \E q \in ReqIds : dv.reqs[q].kind = "none"
FreshReq    == CHOOSE q \in ReqIds :
                  dv.reqs[q].kind = "none" /\ \A p \in ReqIds : p < q => dv.reqs[p].kind # "none"

RunInProgress(r) == dv.runs[r].pc \in {"running", "awaiting"}

\* resolve(value) of a promise: the first call settles it, later calls do nothing
resolve(reqs, q, value, key, state) ==
    IF reqs[q].st = "pending"
    THEN [reqs EXCEPT ![q].st = "resolved", ![q].value = value, ![q].by = <<key, state>>]
    ELSE reqs

\* the run that awaits a promise goes on as soon as the promise is resolved
\* (its continuation is a microtask: it runs before the next key or timer)
resume(runs, reqs, q) ==
    IF reqs[q].st = "pending" THEN [runs EXCEPT ![reqs[q].run].pc = "running"] ELSE runs

\* the effect runs (after the mount, and again whenever one of its
\* dependencies has changed): runDeployment() calls startDeployment
DeployEffect ==
    /\ dv.mounted \/ \A r \in ViewRunIds : dv.runs[r].pc = "none"
    /\ \E r \in ViewRunIds :
          /\ dv.runs[r].pc = "none"
          /\ \A p \in ViewRunIds : p < r => dv.runs[p].pc # "none"
          /\ dv' = [dv EXCEPT !.mounted = TRUE, !.runs[r].pc = "running"]
    /\ UNCHANGED othersOfDV

\* a step of run r calls onConfirm: handleConfirm
handleConfirm(r) ==
    /\ dv.mounted
    /\ dv.runs[r].pc = "running"
    /\ HasFreshReq
    /\ LET q == FreshReq
       IN  dv' = [dv EXCEPT !.reqs[q] = [NoReq EXCEPT !.kind = "confirm", !.run = r,
                                                     !.st = "pending"],
                            !.runs[r] = [pc |-> "awaiting", q |-> q],
                            !.next.confirmPrompt = q,
                            !.next.deployState = "confirming"]
    /\ UNCHANGED othersOfDV

\* whether openTerminalWithCommand's failure rejects the promise
RejectsOnFailure_Always(how) == TRUE

RejectsOnFailure(how) == how # "opened"

\* a step of run r calls onSpawnInteractiveTerminal: handleSpawnTerminal.
\* how: the terminal opened, openTerminalWithCommand reported a failure, or
\* detectTerminal threw before any state was set
handleSpawnTerminal(r, how) ==
    /\ dv.mounted
    /\ dv.runs[r].pc = "running"
    /\ HasFreshReq
    /\ LET q   == FreshReq
           req == [NoReq EXCEPT !.kind = "terminal", !.run = r,
                                !.st = IF RejectsOnFailure(how) THEN "rejected" ELSE "pending",
                                !.value = how]
       IN  dv' = [dv EXCEPT !.reqs[q] = req,
                            !.runs[r] = [pc |-> "awaiting", q |-> q],
                            !.next.terminalResolve = IF how = "threw" THEN @ ELSE q,
                            !.next.deployState = IF how = "threw" THEN @ ELSE "waiting_terminal"]
    /\ UNCHANGED othersOfDV

\* run r's await of a rejected promise throws: the step fails and with it the
\* run, which runDeployment catches
RunRejected(r) ==
    /\ dv.mounted
    /\ dv.runs[r].pc = "awaiting"
    /\ dv.reqs[dv.runs[r].q].st = "rejected"
    /\ dv' = [dv EXCEPT !.runs[r].pc = "ended", !.next.deployState = "failed"]
    /\ UNCHANGED othersOfDV

\* startDeployment returns or throws: runDeployment sets success or failed
RunSettles(r, ok) ==
    /\ dv.mounted
    /\ dv.runs[r].pc = "running"
    /\ dv' = [dv EXCEPT !.runs[r].pc = "ended",
                        !.next.deployState = IF ok THEN "success" ELSE "failed"]
    /\ UNCHANGED othersOfDV

\* React renders the view with the state set since the last render
Render ==
    /\ dv.mounted
    /\ dv.shown # dv.next
    /\ dv' = [dv EXCEPT !.shown = dv.next]
    /\ UNCHANGED othersOfDV

\* the answer a key gives to a confirm prompt
ConfirmAnswer_AlwaysYes(key) == "true"

ConfirmAnswer(key) == IF key \in {"y", "return"} THEN "true" ELSE "false"

\* the useKeyboard handler
DeployKey(key) ==
    /\ dv.mounted
    /\ LET s == dv.shown
       IN  CASE s.deployState = "waiting_terminal" /\ key = "return" ->
                    \* confirmTerminalComplete()
                    dv' = [dv EXCEPT
                            !.reqs = IF s.terminalResolve # 0
                                     THEN resolve(@, s.terminalResolve, "done", key, s.deployState)
                                     ELSE @,
                            !.runs = IF s.terminalResolve # 0
                                     THEN resume(@, dv.reqs, s.terminalResolve)
                                     ELSE @,
                            !.next.terminalResolve = IF s.terminalResolve # 0 THEN 0 ELSE @,
                            !.next.deployState = "deploying"]
             [] s.deployState = "confirming" /\ s.confirmPrompt # 0
                    /\ key \in {"y", "return", "n", "escape"} ->
                    dv' = [dv EXCEPT
                            !.reqs = resolve(@, s.confirmPrompt, ConfirmAnswer(key), key,
                                             s.deployState),
                            !.runs = resume(@, dv.reqs, s.confirmPrompt),
                            !.next.confirmPrompt = 0,
                            !.next.deployState = "deploying"]
             [] s.deployState \in {"success", "failed"} ->
                    \* context.navigateTo("home"): the view unmounts
                    dv' = [dv EXCEPT !.mounted = FALSE]
             [] OTHER -> FALSE
    /\ UNCHANGED othersOfDV

InitDV == dv = NewDV

NextDV ==
    \/ DeployEffect
    \/ \E r \in ViewRunIds : handleConfirm(r)
    \/ \E r \in ViewRunIds, how \in {"opened", "failed", "threw"} : handleSpawnTerminal(r, how)
    \/ \E r \in ViewRunIds : RunRejected(r)
    \/ \E r \in ViewRunIds, ok \in BOOLEAN : RunSettles(r, ok)
    \/ Render
    \/ \E key \in {"return", "y", "n", "escape", "x"} : DeployKey(key)

----------------------------------------------------------------------------
\* generateSSHKeyPair: the OpenSSH encodings of an ED25519 key pair.  Buffers
\* are sequences of bytes; a base64 text is the sequence of its characters'
\* values, 0..63, with Base64Pad for "=".

KeyLen == 32            \* the raw ED25519 public key and seed
BlockSize == 8          \* the cipher block size for cipher "none"
LineLen == 70           \* the PEM line length
Base64Pad == 64

Min(a, b) == IF a < b THEN a ELSE b

\* Buffer.from("ssh-ed25519"), Buffer.from("openssh-key-v1\0"), Buffer.from("none")
KeyTypeBytes  == <<115, 115, 104, 45, 101, 100, 50, 53, 53, 49, 57>>
AuthMagic     == <<111, 112, 101, 110, 115, 115, 104, 45, 107, 101, 121, 45, 118, 49, 0>>
NoneBytes     == <<110, 111, 110, 101>>

\* uint32BE(value): 4 bytes, big-endian
uint32BE(value) == << (value \div 16777216) % 256, (value \div 65536) % 256,
                      (value \div 256) % 256, value % 256 >>

\* the reader's view of 4 big-endian bytes at offset off (1-based)
readUInt32BE(buf, off) ==
    buf[off] * 16777216 + buf[off + 1] * 65536 + buf[off + 2] * 256 + buf[off + 3]

\* a length-prefixed string at offset off: its bytes and the offset after it
readString(buf, off) ==
    LET n == readUInt32BE(buf, off)
    IN  [val |-> SubSeq(buf, off + 4, off + 3 + n), next |-> off + 4 + n]

\* buf.toString("base64")
RECURSIVE toBase64(_)
toBase64(buf) ==
    IF Len(buf) = 0 THEN <<>>
    ELSE LET a == buf[1]
             b == IF Len(buf) > 1 THEN buf[2] ELSE 0
             c == IF Len(buf) > 2 THEN buf[3] ELSE 0
             quad == << a \div 4,
                        (a % 4) * 16 + b \div 16,
                        IF Len(buf) > 1 THEN (b % 16) * 4 + c \div 64 ELSE Base64Pad,
                        IF Len(buf) > 2 THEN c % 64 ELSE Base64Pad >>
         IN  quad \o toBase64(SubSeq(buf, 4, Len(buf)))

\* Buffer.from(text, "base64"), as a reader of the key decodes it
RECURSIVE fromBase64(_)
fromBase64(text) ==
    IF Len(text) < 4 THEN <<>>
    ELSE LET p == text[1]
             q == text[2]
             r == text[3]
             s == text[4]
             b1 == p * 4 + q \div 16
             b2 == (q % 16) * 16 + (IF r = Base64Pad THEN 0 ELSE r \div 4)
             b3 == (IF r = Base64Pad THEN 0 ELSE (r % 4) * 64) + (IF s = Base64Pad THEN 0 ELSE s)
             bytes == IF r = Base64Pad THEN <<b1>>
                      ELSE IF s = Base64Pad THEN <<b1, b2>>
                      ELSE <<b1, b2, b3>>
         IN  bytes \o fromBase64(SubSeq(text, 5, Len(text)))

\* b64.match(/.{1,70}/g): the lines of the PEM body
RECURSIVE wrapLines(_)
wrapLines(text) ==
    IF Len(text) = 0 THEN <<>>
    ELSE <<SubSeq(text, 1, Min(LineLen, Len(text)))>>
            \o wrapLines(SubSeq(text, Min(LineLen, Len(text)) + 1, Len(text)))

\* a reader joins the lines between the BEGIN and END markers
RECURSIVE joinLines(_)
joinLines(lines) ==
    IF Len(lines) = 0 THEN <<>> ELSE lines[1] \o joinLines(Tail(lines))

\* buildOpenSSHPublicKey: `ssh-ed25519 ${base64} ${comment}`, as its three parts
buildOpenSSHPublicKey(publicKeyBytes, comment) ==
    [keyType |-> "ssh-ed25519",
     base64  |-> toBase64(uint32BE(Len(KeyTypeBytes)) \o KeyTypeBytes
                          \o uint32BE(Len(publicKeyBytes)) \o publicKeyBytes),
     comment |-> comment]

\* the 64-byte private field: private_seed + public_key
ed25519PrivKey_SeedTwice(privateKeyBytes, publicKeyBytes) == privateKeyBytes \o privateKeyBytes

ed25519PrivKey(privateKeyBytes, publicKeyBytes) == privateKeyBytes \o publicKeyBytes

\* paddingLen = blockSize - (privateSection.length % blockSize); padding[i] = i + 1
padding(len) == [i \in 1..(BlockSize - (len % BlockSize)) |-> i]

\* buildOpenSSHPrivateKey: the lines of the PEM body
buildOpenSSHPrivateKey(privateKeyBytes, publicKeyBytes, comment, checkInt) ==
    LET pubKeyBlob == uint32BE(Len(KeyTypeBytes)) \o KeyTypeBytes
                        \o uint32BE(Len(publicKeyBytes)) \o publicKeyBytes
        privKey == ed25519PrivKey(privateKeyBytes, publicKeyBytes)
        privateSection == checkInt \o checkInt
                        \o uint32BE(Len(KeyTypeBytes)) \o KeyTypeBytes
                        \o uint32BE(Len(publicKeyBytes)) \o publicKeyBytes
                        \o uint32BE(Len(privKey)) \o privKey
                        \o uint32BE(Len(comment)) \o comment
        paddedPrivate == privateSection \o padding(Len(privateSection))
        fullKey == AuthMagic
                        \o uint32BE(Len(NoneBytes)) \o NoneBytes
                        \o uint32BE(Len(NoneBytes)) \o NoneBytes
                        \o uint32BE(0)
                        \o uint32BE(1)
                        \o uint32BE(Len(pubKeyBlob)) \o pubKeyBlob
                        \o uint32BE(Len(paddedPrivate)) \o paddedPrivate
    IN  wrapLines(toBase64(fullKey))

\* the key material Node's generateKeyPairSync may return, by pattern: byte i
\* of pattern <<a, b>> is (a + b * i) % 256
KeyBytes(pattern) == [i \in 1..KeyLen |-> (pattern[1] + pattern[2] * i) % 256]
KeyPatterns == {<<0, 0>>, <<255, 0>>, <<1, 7>>, <<200, 13>>}

\* comments, as bytes: "", "a", "clawcontrol", one with a space and a
\* two-byte character, and "admin" and "clawcontrol-1", with which the private
\* section (131 bytes and the comment) is a whole number of blocks
Comments == { <<>>, <<97>>, <<99, 108, 97, 119, 99, 111, 110, 116, 114, 111, 108>>,
              <<109, 121, 32, 107, 195, 169, 121>>,
              <<97, 100, 109, 105, 110>>,
              <<99, 108, 97, 119, 99, 111, 110, 116, 114, 111, 108, 45, 49>> }
CheckInts == { <<0, 0, 0, 0>>, <<222, 173, 190, 239>> }

NoKeys == [made |-> FALSE, publicKey |-> <<>>, privateKey |-> <<>>, comment |-> <<>>]

\* generateSSHKeyPair(comment), called once for a new deployment
generateSSHKeyPair(seed, pub, comment, checkInt) ==
    /\ ~keys.made
    /\ keys' = [made |-> TRUE,
                publicKey  |-> buildOpenSSHPublicKey(KeyBytes(pub), comment),
                privateKey |-> buildOpenSSHPrivateKey(KeyBytes(seed), KeyBytes(pub),
                                                      comment, checkInt),
                comment |-> comment]
    /\ UNCHANGED othersOfKeys

InitKeys == keys = NoKeys

NextKeys ==
    \E seed \in KeyPatterns, pub \in KeyPatterns, comment \in Comments, checkInt \in CheckInts :
        generateSSHKeyPair(seed, pub, comment, checkInt)

----------------------------------------------------------------------------
\* The provisioning steps (services/setup): each is a fixed list of remote
\* commands run one after the other through ssh.exec or execOrFail.

StepNames == {"setupSwap", "updateSystem", "installNVM", "installNode", "installPnpm",
              "installChrome", "installOpenClaw", "configureOpenClaw",
              "installTailscale", "configureTailscaleServe"}

\* What ssh.exec resolves with, by what the steps look at: the code, whether
\* stdout holds what the step looks for ("out") or nothing, whether stderr is
\* empty.  Rejected: ssh.exec rejects (no connection, no channel).
ExecResults == { [code |-> 0, stdout |-> "out", stderr |-> ""],
                 [code |-> 0, stdout |-> "",    stderr |-> ""],
                 [code |-> 1, stdout |-> "",    stderr |-> "err"],
                 [code |-> 1, stdout |-> "out", stderr |-> ""],
                 [code |-> 1, stdout |-> "",    stderr |-> ""] }
Rejected == [rejected |-> TRUE]

\* A command of a step.  kind: how the step runs it:
\*   "check"    ssh.exec; the step returns at once if it finds its target
\*   "query"    ssh.exec; the step throws unless it gets an answer
\*   "required" execOrFail
\*   "plain"    ssh.exec, the result is not looked at
\*   "verify"   ssh.exec; the step throws unless it finds its target
\* changes: the command changes the server; decisive: its success is what
\* brings the step's target condition about.
Chk == [kind |-> "check", changes |-> FALSE, decisive |-> FALSE, errorMessage |-> ""]
Qry == [kind |-> "query", changes |-> FALSE, decisive |-> FALSE, errorMessage |-> ""]
Ver == [kind |-> "verify", changes |-> FALSE, decisive |-> FALSE, errorMessage |-> ""]
Pln == [kind |-> "plain", changes |-> TRUE, decisive |-> FALSE, errorMessage |-> ""]
Req(errorMessage) ==
    [kind |-> "required", changes |-> TRUE, decisive |-> FALSE, errorMessage |-> errorMessage]
Dec(errorMessage) ==
    [kind |-> "required", changes |-> TRUE, decisive |-> TRUE, errorMessage |-> errorMessage]

StepCommands(step) ==
    CASE step = "setupSwap" ->
            \* swapon --show; fallocate, chmod, mkswap, swapon, fstab, sysctl, sysctl.conf; free -h
            << Chk, Req("Failed to setup swap"), Req("Failed to setup swap"),
               Req("Failed to setup swap"), Dec("Failed to setup swap"),
               Req("Failed to setup swap"), Req("Failed to setup swap"),
               Req("Failed to setup swap"), Ver >>
      [] step = "updateSystem" ->
            << Req("Failed to update package lists"), Req("Failed to upgrade packages"),
               Dec("Failed to install essential packages") >>
      [] step = "installNVM" ->
            << Chk, Dec("Failed to install NVM"), Pln, Ver >>
      [] step = "installNode" ->
            << Chk, Dec("Failed to install Node.js LTS"),
               Req("Failed to set default Node.js version"), Ver >>
      [] step = "installPnpm" ->
            << Chk, Dec("Failed to install pnpm"), Ver >>
      [] step = "installChrome" ->
            << Chk, Req("Failed to download Google Chrome"),
               Dec("Failed to install Google Chrome"), Pln, Ver >>
      [] step = "installOpenClaw" ->
            << Chk, Dec("Failed to install OpenClaw"), Ver >>
      [] step = "configureOpenClaw" ->
            << Pln, Dec("Failed to write OpenClaw configuration"), Ver >>
      [] step = "installTailscale" ->
            << Chk, Dec("Failed to install Tailscale"), Pln, Pln, Ver >>
      [] step = "configureTailscaleServe" ->
            << Qry, Dec("Failed to configure Tailscale serve") >>

\* the test a step makes of the result of its check
AlreadyDone(step, result) ==
    IF step = "setupSwap" THEN result.stdout = "out"
    ELSE result.code = 0 /\ result.stdout = "out"

\* the test a step makes of the result of its verification
Verified(step, result) ==
    CASE step = "setupSwap" -> result.stdout = "out"
      [] step \in {"installNode", "configureOpenClaw"} ->
            result.code = 0 /\ result.stdout = "out"
      [] OTHER -> result.code = 0

\* `tailscale ip -4` gave an address
Answered(result) == result.code = 0 /\ result.stdout = "out"

execOrFail_NeverThrows(result, errorMessage) ==
    [threw |-> FALSE, message |-> <<>>, value |-> result.stdout]

\* execOrFail(ssh, command, errorMessage), from the result of its ssh.exec on
execOrFail(result, errorMessage) ==
    IF result.code # 0
    THEN [threw |-> TRUE,
          message |-> <<errorMessage, IF result.stderr # "" THEN result.stderr
                                      ELSE result.stdout>>,
          value |-> ""]
    ELSE [threw |-> FALSE, message |-> <<>>, value |-> result.stdout]

\* a step call: the step, where it is (st: idle, running, returned, threw; pc:
\* the command it is to run next), and
\*   issued  - the commands it has run, by their place in the step's list
\*   last    - the result of the last of them
\*   changed - it has issued a state-changing command
\*   entry   - the step's target condition held when it was called
\*   again   - it was called right after a call of the same step returned
\*   n       - the calls made so far
NoStep == [step |-> "", st |-> "idle", pc |-> 0, issued |-> <<>>, last |-> Rejected,
           err |-> <<>>, changed |-> FALSE, entry |-> FALSE, again |-> FALSE, n |-> 0]

\* a step is called (by the run, or again by a resumed run)
StepStart(step) ==
    /\ prov.st # "running"
    /\ prov.n < MaxStepCalls
    /\ prov' = [NoStep EXCEPT !.step = step, !.st = "running", !.pc = 1,
                              !.entry = (step \in host.has),
                              !.again = (prov.st = "returned" /\ prov.step = step),
                              !.n = prov.n + 1]
    /\ host' = host
    /\ UNCHANGED othersOfSteps

\* what a command that only looks may answer: a check or a verification finds
\* the target exactly when it is there
Honest(step, cmd, result) ==
    CASE cmd.kind = "check"  -> AlreadyDone(step, result) <=> step \in host.has
      [] cmd.kind = "verify" -> Verified(step, result) <=> step \in host.has
      [] OTHER -> TRUE

\* where the step goes after the command at pc: on, back to its caller, or out
\* with an error
AfterCommand(step, cmd, result) ==
    LET last == prov.pc = Len(StepCommands(step))
        on   == [st |-> IF last THEN "returned" ELSE "running", err |-> <<>>]
        out(message) == [st |-> "threw", err |-> message]
    IN  IF result = Rejected THEN out(<<"ssh.exec rejected">>)
        ELSE CASE cmd.kind = "check" ->
                    IF AlreadyDone(step, result) THEN [st |-> "returned", err |-> <<>>]
                    ELSE on
               [] cmd.kind = "query" ->
                    IF Answered(result) THEN on ELSE out(<<"Failed to get Tailscale IP">>)
               [] cmd.kind = "required" ->
                    LET e == execOrFail(result, cmd.errorMessage)
                    IN  IF e.threw THEN out(e.message) ELSE on
               [] cmd.kind = "plain" -> on
               [] cmd.kind = "verify" ->
                    IF Verified(step, result) THEN on ELSE out(<<"verification failed">>)

\* the file a command of a step appends a line to with `echo ... >> file`:
\* setupSwap's '/swapfile none swap sw 0 0' >> /etc/fstab and
\* 'vm.swappiness=100' >> /etc/sysctl.conf
Appends(step, pc) ==
    IF step # "setupSwap" THEN ""
    ELSE CASE pc = 6 -> "fstab"
           [] pc = 8 -> "sysctlConf"
           [] OTHER -> ""

\* The step runs its next command to its end.  A decisive command that
\* succeeds brings the target about, unless it did not take (effective): it
\* was reported with code 0 without having exited with status 0.  An append
\* that succeeds adds its line to the file.
StepCommand(result, effective) ==
    /\ prov.st = "running"
    /\ LET step == prov.step
           cmd  == StepCommands(step)[prov.pc]
           next == AfterCommand(step, cmd, result)
           took == IF result = Rejected THEN FALSE ELSE cmd.decisive /\ result.code = 0
       IN  /\ IF result = Rejected THEN TRUE ELSE Honest(step, cmd, result)
           /\ IF took THEN TRUE ELSE effective
           /\ prov' = [prov EXCEPT !.st = next.st, !.err = next.err,
                                   !.pc = IF next.st = "running" THEN prov.pc + 1 ELSE prov.pc,
                                   !.issued = Append(prov.issued, prov.pc),
                                   !.last = result,
                                   !.changed = prov.changed \/ cmd.changes]
           /\ LET ran  == IF result = Rejected THEN FALSE ELSE result.code = 0
                  file == Appends(step, prov.pc)
              IN  host' = [has |-> IF took /\ effective THEN host.has \cup {step}
                                   ELSE host.has,
                           fstab |-> IF ran /\ file = "fstab" THEN host.fstab + 1
                                     ELSE host.fstab,
                           sysctlConf |-> IF ran /\ file = "sysctlConf"
                                          THEN host.sysctlConf + 1 ELSE host.sysctlConf]
    /\ UNCHANGED othersOfSteps

InitSteps ==
    /\ host = [has |-> {}, fstab |-> 0, sysctlConf |-> 0]
    /\ prov = NoStep

NextSteps ==
    \/ \E step \in StepNames : StepStart(step)
    \/ \E result \in ExecResults \cup {Rejected}, effective \in BOOLEAN :
            StepCommand(result, effective)

----------------------------------------------------------------------------
\* The questions asked of a server (services/setup): getTailscaleAuthUrl,
\* verifyOpenClawDaemon, isOpenClawRunning.  Each runs its commands through
\* ssh.exec and reads their stdout, here the sequence of its characters.

Blank == {" ", "\n"}

RECURSIVE trimStart(_)
trimStart(s) == IF s # <<>> /\ Head(s) \in Blank THEN trimStart(Tail(s)) ELSE s

RECURSIVE trimEnd(_)
trimEnd(s) ==
    IF s # <<>> /\ s[Len(s)] \in Blank THEN trimEnd(SubSeq(s, 1, Len(s) - 1)) ELSE s

\* String.prototype.trim, startsWith, includes
trim(s) == trimEnd(trimStart(s))
startsWith(s, prefix) == Len(s) >= Len(prefix) /\ SubSeq(s, 1, Len(prefix)) = prefix
includes(s, sub) == \E i \in 0..(Len(s) - Len(sub)) : SubSeq(s, i + 1, i + Len(sub)) = sub

Https  == <<"h", "t", "t", "p", "s", ":", "/", "/">>
Active == <<"a", "c", "t", "i", "v", "e">>

\* what `tailscale status --json` prints, as JSON.parse takes it: no JSON, the
\* JSON null, or an object with its BackendState and its Self (absent, or with
\* Online true or false)
StatusOutputs ==
    { [json |-> j, BackendState |-> "", Self |-> "absent"] : j \in {"invalid", "null"} }
    \cup [json : {"object"}, BackendState : {"Running", "NeedsLogin", "Stopped"},
          Self : {"online", "offline", "absent"}]
StatusResults == [code : {0, 1}, stdout : StatusOutputs]

\* what `... | grep -oP 'https://[^\s]+' | head -1` prints: the first URL of the
\* command's output on a line, or nothing
UrlOutputs(tag) == { <<>>, Https \o <<tag, "\n">> }
UrlResults(tag) == [code : {0, 1}, stdout : UrlOutputs(tag)]

\* what `systemctl is-active openclaw` prints
UnitOutputs ==
    { Active \o <<"\n">>,
      <<"i", "n">> \o Active \o <<"\n">>,
      <<"f", "a", "i", "l", "e", "d", "\n">>,
      <<"a", "c", "t", "i", "v", "a", "t", "i", "n", "g", "\n">>,
      <<"d", "e">> \o Active \o <<"\n">>,
      <<"u", "n", "k", "n", "o", "w", "n", "\n">>,
      <<>> }
UnitResults == [code : {0, 3}, stdout : UnitOutputs]

\* how a call ends: it throws, or returns null, true, false, nothing or a string
Threw(message) == [threw |-> TRUE,  kind |-> "error",  value |-> message]
GaveNull       == [threw |-> FALSE, kind |-> "null",   value |-> <<>>]
Gave(string)   == [threw |-> FALSE, kind |-> "string", value |-> string]
GaveBool(b)    == [threw |-> FALSE, kind |-> "boolean", value |-> <<b>>]
Returned       == [threw |-> FALSE, kind |-> "void",   value |-> <<>>]

\* status.BackendState === "Running" && status.Self?.Online, in JSON.parse's try
Authenticated(statusResult) ==
    /\ statusResult.code = 0
    /\ statusResult.stdout.json = "object"
    /\ statusResult.stdout.BackendState = "Running"
    /\ statusResult.stdout.Self = "online"

\* getTailscaleAuthUrl(ssh), from the results of the ssh.exec calls it makes
getTailscaleAuthUrl(statusResult, upResult, loginResult) ==
    IF statusResult = Rejected THEN Threw(<<"ssh.exec rejected">>)
    ELSE IF Authenticated(statusResult) THEN GaveNull
    ELSE IF upResult = Rejected THEN Threw(<<"ssh.exec rejected">>)
    ELSE IF startsWith(trim(upResult.stdout), Https) THEN Gave(trim(upResult.stdout))
    ELSE IF loginResult = Rejected THEN Threw(<<"ssh.exec rejected">>)
    ELSE IF startsWith(trim(loginResult.stdout), Https) THEN Gave(trim(loginResult.stdout))
    ELSE GaveNull

\* verifyOpenClawDaemon(ssh): `systemctl is-active openclaw || true`, then the
\* journal for the message of its error
verifyOpenClawDaemon(statusResult, logs) ==
    IF statusResult = Rejected THEN Threw(<<"ssh.exec rejected">>)
    ELSE IF ~includes(statusResult.stdout, Active)
         THEN IF logs = Rejected THEN Threw(<<"ssh.exec rejected">>)
              ELSE Threw(<<"OpenClaw daemon is not running">>)
         ELSE Returned

\* isOpenClawRunning(ssh)
isOpenClawRunning(result) ==
    IF result = Rejected THEN Threw(<<"ssh.exec rejected">>)
    ELSE GaveBool(trim(result.stdout) = Active)

NoAsk == [fn |-> "", said |-> <<>>, gave |-> Returned]

\* said: the results of the ssh.exec calls the function made, in order
GetTailscaleAuthUrl(statusResult, upResult, loginResult) ==
    /\ LET gave == getTailscaleAuthUrl(statusResult, upResult, loginResult)
           asked == IF statusResult = Rejected THEN 1
                    ELSE IF Authenticated(statusResult) THEN 1
                    ELSE IF upResult = Rejected THEN 2
                    ELSE IF startsWith(trim(upResult.stdout), Https) THEN 2
                    ELSE 3
       IN  ask' = [fn |-> "getTailscaleAuthUrl",
                   said |-> SubSeq(<<statusResult, upResult, loginResult>>, 1, asked),
                   gave |-> gave]
    /\ UNCHANGED othersOfAsk

VerifyOpenClawDaemon(statusResult, logs) ==
    /\ ask' = [fn |-> "verifyOpenClawDaemon", said |-> <<statusResult>>,
               gave |-> verifyOpenClawDaemon(statusResult, logs)]
    /\ UNCHANGED othersOfAsk

IsOpenClawRunning(result) ==
    /\ ask' = [fn |-> "isOpenClawRunning", said |-> <<result>>,
               gave |-> isOpenClawRunning(result)]
    /\ UNCHANGED othersOfAsk

InitAsk == ask = NoAsk

NextAsk ==
    \/ \E statusResult \in StatusResults \cup {Rejected},
          upResult \in UrlResults("a") \cup {Rejected},
          loginResult \in UrlResults("b") \cup {Rejected} :
            GetTailscaleAuthUrl(statusResult, upResult, loginResult)
    \/ \E statusResult \in UnitResults \cup {Rejected}, logs \in ExecResults \cup {Rejected} :
            VerifyOpenClawDaemon(statusResult, logs)
    \/ \E result \in UnitResults \cup {Rejected} : IsOpenClawRunning(result)

----------------------------------------------------------------------------
\* testSSHConnection(host, privateKey): a connection of its own, one connect
\* attempt with no wait, `echo 'ok'`, disconnect.  waitForSSH calls it again
\* and again, each call with a new SSHConnection.

Ok == <<"o", "k">>

\* what the probe command has printed when its channel closes
ProbeOutputs == { Ok \o <<"\n">>, <<>>, <<"o">>, <<"h", "i", "\n">> \o Ok \o <<"\n">> }

\* pc: idle, connecting, exec, returned.  conn, op: the call's SSHConnection and
\* its exec.  status, stdout: what the command's channel closed with.  result:
\* what the call returned.  left: the connections of earlier calls still open.
NoTest == [pc |-> "idle", n |-> 0, conn |-> NewConn, op |-> "none", status |-> "",
           stdout |-> <<>>, result |-> "none", left |-> 0]

\* the connection is open: the Client holds an established transport
IsOpen(c) == c.client = "ready"

\* return result.code === 0 && result.stdout.trim() === "ok"
ProbeSaysOk(code, stdout) == code = "0" /\ trim(stdout) = Ok

\* the catch block: return false
testCatch(t, c) == [t EXCEPT !.pc = "returned", !.conn = c, !.result = "false"]

\* testSSHConnection is called: createSSHConnection, connect(1, 0) up to its await
TestCall ==
    /\ test.pc \in {"idle", "returned"}
    /\ test.n < MaxTests
    /\ test' = [NoTest EXCEPT !.pc = "connecting", !.n = test.n + 1,
                              !.conn = loopNext([NewConn EXCEPT !.retries = 1]),
                              !.left = test.left + IF IsOpen(test.conn) THEN 1 ELSE 0]
    /\ UNCHANGED othersOfTest

\* "ready": connect() returns, and exec("echo 'ok'") asks for its channel
TestReady ==
    /\ test.pc = "connecting"
    /\ test.conn.pc = "attempting"
    /\ test.conn.client = "handshaking"
    /\ test' = [test EXCEPT !.pc = "exec", !.op = "opening",
                            !.conn = [@ EXCEPT !.client = "ready", !.timers = {},
                                               !.connected = TRUE, !.pc = "done"]]
    /\ UNCHANGED othersOfTest

\* "error" during the only attempt: connect() throws, the catch returns false
TestError(e) ==
    /\ test.pc = "connecting"
    /\ test.conn.client = "handshaking"
    /\ test' = testCatch(test, connectCatch([test.conn EXCEPT !.client = "dead", !.timers = {}], e))
    /\ UNCHANGED othersOfTest

\* the attempt's timer fires: client.end(), connect() throws
TestTimer ==
    /\ test.pc = "connecting"
    /\ 1 \in test.conn.timers
    /\ test' = testCatch(test, connectCatch([test.conn EXCEPT !.client = "ended", !.timers = {}],
                                            "Connection timeout"))
    /\ UNCHANGED othersOfTest

\* the callback of client.exec: the stream, or err (exec rejects, the catch
\* returns false)
TestOpCallback(ok) ==
    /\ test.pc = "exec"
    /\ test.op = "opening"
    /\ IsOpen(test.conn)
    /\ test' = IF ok THEN [test EXCEPT !.op = "running"]
               ELSE testCatch([test EXCEPT !.op = "rejected"], test.conn)
    /\ UNCHANGED othersOfTest

\* the try block after exec resolved: disconnect(), then the return
testReturn(t, status, stdout) ==
    [t EXCEPT !.pc = "returned", !.op = "resolved", !.status = status, !.stdout = stdout,
              !.conn = [@ EXCEPT !.client = "ended", !.connected = FALSE],
              !.result = IF ProbeSaysOk(CodeOrZero(status), stdout) THEN "true" ELSE "false"]

\* the command's channel closes, with an exit status or (killed by a signal)
\* without one
TestOpClose(status, stdout) ==
    /\ test.pc = "exec"
    /\ test.op = "running"
    /\ IsOpen(test.conn)
    /\ test' = testReturn(test, status, stdout)
    /\ UNCHANGED othersOfTest

\* the transport of the call's connection is lost (closed by the server, or a
\* link error); with it go the channel request (exec rejects) or the channel
\* (closed with no exit status and the output received so far)
TestLost(stdout) ==
    /\ IsOpen(test.conn)
    /\ LET c == [test.conn EXCEPT !.client = "dead"]
       IN  test' = CASE test.pc = "exec" /\ test.op = "opening" ->
                          testCatch([test EXCEPT !.op = "rejected"], c)
                     [] test.pc = "exec" /\ test.op = "running" ->
                          testReturn([test EXCEPT !.conn = c], "null", stdout)
                     [] OTHER -> [test EXCEPT !.conn = c]
    /\ UNCHANGED othersOfTest

\* the transport of a connection an earlier call left open is lost
LeftLost ==
    /\ test.left > 0
    /\ test' = [test EXCEPT !.left = @ - 1]
    /\ UNCHANGED othersOfTest

InitTest == test = NoTest

NextTest ==
    \/ TestCall
    \/ TestReady
    \/ \E e \in ConnectErrs : TestError(e)
    \/ TestTimer
    \/ \E ok \in BOOLEAN : TestOpCallback(ok)
    \/ \E status \in {"0", "1", "null"}, stdout \in ProbeOutputs : TestOpClose(status, stdout)
    \/ \E stdout \in ProbeOutputs : TestLost(stdout)
    \/ LeftLost

----------------------------------------------------------------------------
\* Foreign listeners: nothing, the preferred port, all of the window but its
\* last port, or the whole window.
ExtChoices == { {}, {RemotePort}, Window(RemotePort) \ {RemotePort + ScanWindow - 1},
                Window(RemotePort) }

InitTunnel(n, exts) ==
    /\ activeTunnels = [d \in Names |-> NoTunnel]
    /\ procs = [p \in 1..n |-> NoProc]
    /\ calls = [c \in 1..n |-> IdleCall]
    /\ extBusy \in exts
    /\ held = [d \in Names |-> 0]
    /\ got = NoQuery

InitOther == InitSSH /\ InitViews /\ InitPoll /\ InitDV /\ InitKeys /\ InitSteps /\ InitAsk /\ InitTest
InitRest  == InitOther /\ InitRun /\ InitDisk
Init      == InitTunnel(MaxStarts, ExtChoices) /\ InitRest
InitSeq   == InitTunnel(MaxSeqStarts, ExtChoices) /\ InitRest
\* for the other subsystems the registry is idle and no foreign listener matters
InitQuiet == InitTunnel(MaxStarts, {{}}) /\ InitRest
\* a new installation, under any of the umasks: nothing on disk, no run made
InitFresh ==
    /\ InitTunnel(MaxStarts, {{}}) /\ InitOther
    /\ dstate = NoFile /\ run = IdleRun /\ deployState = "deploying"
    /\ disk \in {FreshDisk(umask) : umask \in Umasks}
    /\ outcome = NoCall

NextTunnel ==
    \/ \E c \in CallIds, d \in Names : StartTunnel(c, d)
    \/ \E c \in CallIds : ProbeStep(c)
    \/ \E c \in CallIds : SettleDone(c)
    \/ \E p \in ProcIds : ProcBind(p)
    \/ \E p \in ProcIds : ProcExit(p)
    \/ \E d \in Names : StopTunnel(d)
    \/ StopAllTunnels

\* the registry with the views' queries of it
NextTunnelQuery ==
    \/ NextTunnel
    \/ \E d \in Names : GetTunnel(d)
    \/ GetActiveTunnels

\* Callers that never overlap: a call starts only when none is in flight.
StartTunnelSeq(c, d) ==
    /\ \A o \in CallIds : ~InFlight(o)
    /\ StartTunnel(c, d)

NextTunnelSeq ==
    \/ \E c \in CallIds, d \in Names : StartTunnelSeq(c, d)
    \/ \E c \in CallIds : ProbeStep(c)
    \/ \E c \in CallIds : SettleDone(c)
    \/ \E p \in ProcIds : ProcBind(p)
    \/ \E p \in ProcIds : ProcExit(p)
    \/ \E d \in Names : StopTunnel(d)
    \/ StopAllTunnels

\* The event loop runs every callback that is due: a keepalive interval that
\* has passed is acted on, and the events of a transport that is gone are
\* delivered to the channels.
FairSSH == WF_vars(KeepaliveMiss) /\ \A o \in 1..MaxOps : WF_vars(ChannelLost(o))

SpecSSH       == InitQuiet /\ [][NextSSH]_vars
SpecRun       == InitQuiet /\ [][NextRun]_vars
SpecSSHFair   == InitQuiet /\ [][NextSSH]_vars /\ FairSSH
SpecTunnel    == Init /\ [][NextTunnel]_vars
SpecTunnelSeq == InitSeq /\ [][NextTunnelSeq]_vars
SpecState     == InitQuiet /\ [][NextState]_vars
SpecViews     == InitQuiet /\ [][NextViews]_vars
\* each poll returns or throws, and every timer fires
PollEnds      == \/ \E lag \in 0..MaxLag : PollThrows(lag)
                 \/ \E kind \in WaitKinds : \E o \in Observations(kind), lag \in 0..MaxLag :
                        PollReturn(o, lag)
FairPoll      == /\ WF_vars(WaitTest)
                 /\ WF_vars(\E lag \in 0..MaxLag : SleepDone(lag))
                 /\ WF_vars(PollEnds)
SpecDeploying == InitQuiet /\ [][NextDV]_vars
SpecKeys      == InitQuiet /\ [][NextKeys]_vars
SpecPoll      == InitQuiet /\ [][NextPoll]_vars
SpecStore     == InitFresh /\ [][NextStore]_vars
SpecSteps     == InitQuiet /\ [][NextSteps]_vars
SpecAsk       == InitQuiet /\ [][NextAsk]_vars
SpecTest      == InitQuiet /\ [][NextTest]_vars
SpecTunnelQuery == InitQuiet /\ [][NextTunnelQuery]_vars
SpecPollFair  == InitQuiet /\ [][NextPoll]_vars /\ FairPoll

----------------------------------------------------------------------------
\* Properties

OneTo(n) == [i \in 1..n |-> i]

\* C1: a startTunnel(d) made when an earlier startTunnel(d) has returned a
\* tunnel, no stopTunnel(d) or stopAllTunnels came since and that tunnel's
\* process is alive, returns that same tunnel and spawns nothing.
C1_RestartReturnsSameTunnel ==
    \A c \in CallIds :
        calls[c].heldAtCall # 0 =>
            /\ calls[c].pc = "returned"
            /\ calls[c].result.proc = calls[c].heldAtCall
            /\ procs[c].st = "none"

\* C2: of two startTunnel calls for one deployment in flight together, at most
\* one spawns a process, and both return the same localPort.
C2_ConcurrentStartsShareOneProcess ==
    \A b \in CallIds : \A a \in calls[b].peers :
        /\ ~(procs[a].st # "none" /\ procs[b].st # "none")
        /\ (calls[a].pc = "returned" /\ calls[b].pc = "returned"
                => calls[a].result.localPort = calls[b].result.localPort)

\* C5: two registry entries of different deployments whose processes are alive
\* never have the same localPort.
C5_DistinctLocalPorts ==
    \A d1 \in Names, d2 \in Names :
        (/\ d1 # d2
         /\ activeTunnels[d1] # NoTunnel /\ activeTunnels[d2] # NoTunnel
         /\ ProcRunning(activeTunnels[d1].proc) /\ ~ProcDead(activeTunnels[d1].proc)
         /\ ProcRunning(activeTunnels[d2].proc) /\ ~ProcDead(activeTunnels[d2].proc))
        => activeTunnels[d1].localPort # activeTunnels[d2].localPort

\* C6: the port findAvailablePort returns lies in the window of 100, and every
\* lower port of the window was probed and found busy (so it is the start port
\* when that one was free); when it throws, all 100 ports were found busy, no
\* process was spawned and no registry entry made.
C6_FindAvailablePort ==
    \A c \in CallIds :
        /\ procs[c].st # "none" =>
              /\ procs[c].port \in Window(RemotePort)
              /\ calls[c].scanned = RemotePort..(procs[c].port - 1)
        /\ calls[c].err = "NoPort" =>
              /\ calls[c].pc = "threw"
              /\ calls[c].scanned = Window(RemotePort)
              /\ procs[c].st = "none"
              /\ \A d \in Names : activeTunnels[d].proc # c

C6_Witness ==
    \E c \in CallIds :
        /\ calls[c].pc = "settling"
        /\ procs[c].port = RemotePort + ScanWindow - 1
        /\ Cardinality(calls[c].scanned) = ScanWindow - 1

C8_ConnectRetries ==
    /\ hist.attempts <= conn.retries
    /\ hist.attempts = Len(hist.errLog) + (IF conn.pc \in {"attempting", "done"} THEN 1 ELSE 0)
    /\ Cardinality(conn.timers) <= 1
    /\ conn.pc = "done" /\ hist.live => conn.connected
    /\ conn.pc = "done" => hist.delays = hist.attempts - 1
    /\ conn.pc = "threw" =>
          /\ hist.attempts = conn.retries
          /\ Len(hist.errLog) = conn.retries
          /\ conn.retries >= 1 => conn.thrown = hist.errLog[Len(hist.errLog)]
          /\ conn.retries >= 1 => hist.delays = conn.retries - 1
          /\ ~conn.connected

C8_Witness ==
    /\ conn.pc = "threw"
    /\ conn.retries = 2
    /\ hist.errLog = <<"ECONNREFUSED", "Connection timeout">>
    /\ hist.delays = 1

\* C9: exec, execStream and shell, called when no connect has succeeded since
\* the object was made or since the last disconnect(), fail with "SSH not
\* connected" and put no request on the transport.
C9_NotConnectedRejected ==
    \A o \in OpIds :
        ops[o].pc # "none" /\ ~ops[o].liveAtCall =>
            /\ ops[o].pc = "rejected"
            /\ ops[o].err = "SSH not connected"
            /\ ~ops[o].sent

C9_Witness ==
    /\ conn.pc = "done"
    /\ \E o \in OpIds : ops[o].pc = "rejected" /\ ~ops[o].liveAtCall /\ ops[o].kind = "shell"
    /\ \E o \in OpIds : ops[o].pc = "resolved" /\ ops[o].liveAtCall

InFlightOp(o) == ops[o].pc \in {"opening", "running"}

\* C10: once the server has stopped answering, the transport is given up and
\* every exec, execStream or shell in flight is settled.
C10_SilentServerSettles ==
    \A o \in 1..MaxOps :
        (peer.silent /\ InFlightOp(o)) ~> (conn.client # "ready" /\ ~InFlightOp(o))

C10_Witness ==
    /\ peer.silent
    /\ conn.client = "dead"
    /\ conn.connected
    /\ \E o \in OpIds : ops[o].sent /\ ops[o].pc = "resolved" /\ ops[o].kind = "execStream"

\* C3: a run that failed at step k leaves status failed, lastError set and the
\* checkpoints 1..k-1; the run after it executes k, k+1, ... in order, none of
\* 1..k-1, and all of k..NumSteps when it succeeds.
C3_FailThenResume ==
    /\ run.pc = "failed" =>
          /\ dstate.status = "failed"
          /\ "lastError" \in DOMAIN dstate /\ dstate.lastError # ""
          /\ dstate.checkpoints = OneTo(run.failedAt - 1)
    /\ run.prevFailedAt # 0 =>
          /\ \A j \in DOMAIN run.executed : run.executed[j] = run.prevFailedAt + j - 1
          /\ run.pc = "succeeded" => Len(run.executed) = NumSteps - run.prevFailedAt + 1

C3_Witness ==
    /\ run.prevFailedAt = 5
    /\ Len(run.startState.checkpoints) = 4
    /\ run.pc = "succeeded"
    /\ run.executed = [j \in 1..9 |-> j + 4]
    /\ dstate.status = "deployed"

\* C4: a run on a deployment whose persisted status is deployed executes no
\* step, leaves the persisted state as it was and succeeds.
C4_DeployedRunIsNoOp ==
    run.n > 0 /\ run.startState.status = "deployed" =>
        /\ run.pc = "succeeded"
        /\ run.executed = <<>>
        /\ dstate = run.startState
        /\ deployState = "success"

C4_Witness ==
    /\ run.n > 1
    /\ run.startState.status = "deployed"
    /\ run.pc = "succeeded"
    /\ Len(dstate.checkpoints) = NumSteps

----------------------------------------------------------------------------
\* C11: at any instant at most one SSHConnection per deployment is live
\* (connected and not yet disconnected), over all the views that open one and
\* all orders of key presses.
C11_OneLiveConnectionPerDeployment ==
    \A d \in Names :
        Cardinality({s \in SessIds : sess[s].st = "live" /\ sess[s].name = d}) <= 1

\* a status that ends waitForServerRunning / waitForAction when a poll sees it
ServerDecisive(o) == o.status \in {"running", "off", "deleting"}
ActionDecisive(o) == o.status \in {"success", "error"}

\* C12: waitForServerRunning returns only on a poll that saw 'running', throws
\* the unexpected-state error on the first poll that sees 'off' or 'deleting',
\* keeps polling on any other status, and throws the timeout error only when
\* no poll saw either before the elapsed time reached the timeout.
C12_WaitForServerRunning ==
    poll.kind = "server" =>
        LET n == Len(poll.seen)
        IN  /\ poll.pc = "returned" => n > 0 /\ poll.seen[n].status = "running"
            /\ \A i \in 1..n : ServerDecisive(poll.seen[i]) => i = n
            /\ (n > 0 /\ poll.seen[n].status = "running") => poll.pc = "returned"
            /\ (n > 0 /\ poll.seen[n].status \in {"off", "deleting"}) =>
                    poll.pc = "threw" /\ poll.err = "server_not_running"
            /\ (n > 0 /\ ~ServerDecisive(poll.seen[n])) =>
                    \/ poll.pc \in {"sleeping", "test", "polling"}
                    \/ poll.pc = "threw" /\ poll.err \in {"timeout", "poll_failed"}
            /\ (poll.pc = "threw" /\ poll.err = "timeout") =>
                    /\ \A i \in 1..n : ~ServerDecisive(poll.seen[i])
                    /\ poll.now - poll.startTime >= poll.timeoutMs

\* the wait polled at least twice and then saw the server deleted
C12_Witness ==
    /\ poll.kind = "server" /\ poll.pc = "threw" /\ poll.err = "server_not_running"
    /\ Len(poll.seen) >= 2
    /\ poll.seen[Len(poll.seen)].status = "deleting"

\* C13: waitForAction returns only on a poll that saw 'success', throws the
\* action-failed error on the first poll that sees 'error', keeps polling on
\* any other status, and throws the timeout error only when neither was seen
\* before the elapsed time reached the timeout.
C13_WaitForAction ==
    poll.kind = "action" =>
        LET n == Len(poll.seen)
        IN  /\ poll.pc = "returned" => n > 0 /\ poll.seen[n].status = "success"
            /\ \A i \in 1..n : ActionDecisive(poll.seen[i]) => i = n
            /\ (n > 0 /\ poll.seen[n].status = "success") => poll.pc = "returned"
            /\ (n > 0 /\ poll.seen[n].status = "error") =>
                    poll.pc = "threw" /\ poll.err = "action_failed"
            /\ (n > 0 /\ ~ActionDecisive(poll.seen[n])) =>
                    \/ poll.pc \in {"sleeping", "test", "polling"}
                    \/ poll.pc = "threw" /\ poll.err \in {"timeout", "poll_failed"}
            /\ (poll.pc = "threw" /\ poll.err = "timeout") =>
                    /\ \A i \in 1..n : ~ActionDecisive(poll.seen[i])
                    /\ poll.now - poll.startTime >= poll.timeoutMs

\* the wait polled at least twice and then saw the action fail
C13_Witness ==
    /\ poll.kind = "action" /\ poll.pc = "threw" /\ poll.err = "action_failed"
    /\ Len(poll.seen) >= 2

\* what waitForSSH and waitForTailscaleAuth wait for, read off an observation
Awaited(kind, o) ==
    CASE kind = "ssh" -> o.status = "ok" /\ o.code = 0
      [] kind = "tailscale" -> o.code = 0 /\ o.json /\ o.status = "Running" /\ o.online
      [] kind = "server" -> o.status = "running"
      [] kind = "action" -> o.status = "success"

C14_Bounded ==
    poll.pc # "idle" =>
        /\ \A i \in DOMAIN poll.startedAt : poll.startedAt[i] < poll.timeoutMs
        /\ poll.pc = "returned" =>
                Len(poll.seen) > 0 /\ Awaited(poll.kind, poll.seen[Len(poll.seen)])
        /\ (poll.pc = "threw" /\ poll.err = "timeout") =>
                poll.now - poll.startTime >= poll.timeoutMs
        /\ poll.kind \in {"ssh", "tailscale"} /\ poll.pc = "threw" => poll.err \in {"timeout", "poll_failed"}

\* C14: every polling wait ends, provided each poll returns: no poll is
\* started once the elapsed time has reached the timeout, the wait then throws
\* the timeout error, and it returns only after a poll that saw the awaited
\* condition.
C14_PollingWaitsTerminate ==
    /\ []C14_Bounded
    /\ (poll.pc # "idle") ~> (poll.pc \in {"returned", "threw"})

\* waitForSSH or waitForTailscaleAuth polled in vain and timed out
C14_Witness ==
    /\ poll.kind \in {"ssh", "tailscale"}
    /\ poll.pc = "threw" /\ poll.err = "timeout"
    /\ Len(poll.seen) >= 2

StatusChange(from, to) ==
    /\ dstate # NoFile /\ dstate' # NoFile
    /\ dstate.status = from /\ dstate'.status = to

\* C15 as stated: the persisted status only ever changes
\* initialized->provisioning, provisioning->deployed or provisioning->failed.
C15_OnlyForwardTransitions ==
    [][(dstate # NoFile /\ dstate' # NoFile /\ dstate'.status # dstate.status) =>
            \/ StatusChange("initialized", "provisioning")
            \/ StatusChange("provisioning", "deployed")
            \/ StatusChange("provisioning", "failed")]_vars

\* C15: the persisted status of an existing deployment only ever changes
\* initialized->provisioning, provisioning->deployed, provisioning->failed,
\* or failed->provisioning when a failed run is resumed.
C15_StatusTransitions ==
    [][(dstate # NoFile /\ dstate' # NoFile /\ dstate'.status # dstate.status) =>
            \/ StatusChange("initialized", "provisioning")
            \/ StatusChange("provisioning", "deployed")
            \/ StatusChange("provisioning", "failed")
            \/ StatusChange("failed", "provisioning")]_vars

\* a failed run was resumed and the deployment is deployed
C15_Witness ==
    /\ dstate # NoFile /\ dstate.status = "deployed"
    /\ run.n >= 2 /\ run.prevFailedAt > 0 /\ run.pc = "succeeded"

IsPrefix(a, b) == Len(a) <= Len(b) /\ SubSeq(b, 1, Len(a)) = a

\* C16: the checkpoint ids of a deployment are pairwise distinct, and every
\* state update keeps the previous checkpoint list as a prefix of the new one,
\* until the deployment is deleted.
C16_CheckpointsAppendOnly ==
    /\ [](dstate # NoFile =>
            \A i, j \in DOMAIN dstate.checkpoints :
                dstate.checkpoints[i] = dstate.checkpoints[j] => i = j)
    /\ [][(dstate # NoFile /\ dstate' # NoFile) =>
            IsPrefix(dstate.checkpoints, dstate'.checkpoints)]_vars

\* a resumed run has appended to the checkpoints of the run that failed
C16_Witness ==
    /\ dstate # NoFile
    /\ run.n >= 2 /\ run.prevFailedAt > 1
    /\ Len(dstate.checkpoints) > Len(run.startState.checkpoints)
    /\ Len(run.startState.checkpoints) > 0

\* run r is suspended in its await of request q
AwaitedBy(q) == dv.runs[dv.reqs[q].run] = [pc |-> "awaiting", q |-> q]

\* C17: the promise of the spawn-interactive-terminal callback stays pending
\* from the opening of the terminal until Enter is pressed while the view
\* shows waiting_terminal; nothing else resolves it, it is rejected only when
\* the terminal could not be opened, and the run stays suspended meanwhile.
C17_TerminalPromise ==
    \A q \in ReqIds :
        dv.reqs[q].kind = "terminal" =>
            /\ dv.reqs[q].st = "resolved" => dv.reqs[q].by = <<"return", "waiting_terminal">>
            /\ dv.reqs[q].st = "rejected" => dv.reqs[q].value # "opened"
            /\ dv.reqs[q].value = "opened" => dv.reqs[q].st # "rejected"
            /\ dv.reqs[q].st = "pending" <=> AwaitedBy(q) /\ dv.reqs[q].value = "opened"

\* a terminal was opened and Enter ended the wait; the run went on
C17_Witness ==
    \E q \in ReqIds :
        /\ dv.reqs[q].kind = "terminal" /\ dv.reqs[q].st = "resolved"
        /\ dv.runs[dv.reqs[q].run].pc = "running"

ConfirmKeys == {"y", "return", "n", "escape"}

C19_OneRunInProgress ==
    dv.mounted => Cardinality({r \in ViewRunIds : RunInProgress(r)}) <= 1

\* the public point a reader finds in the emitted public key string
PublicPointOfString ==
    LET blob == fromBase64(keys.publicKey.base64)
        type == readString(blob, 1)
    IN  readString(blob, type.next).val

\* what a reader finds in the private key container: the point in the public
\* key blob, the point in the private section, and the private field
PrivateContainer ==
    LET full    == fromBase64(joinLines(keys.privateKey))
        cipher  == readString(full, Len(AuthMagic) + 1)
        kdf     == readString(full, cipher.next)
        kdfOpts == readString(full, kdf.next)
        blob    == readString(full, kdfOpts.next + 4)
        section == readString(full, blob.next)
        bType   == readString(blob.val, 1)
        sType   == readString(section.val, 9)
        sPub    == readString(section.val, sType.next)
        sPriv   == readString(section.val, sPub.next)
    IN  [blobPoint    |-> readString(blob.val, bType.next).val,
         sectionPoint |-> sPub.val,
         privField    |-> sPriv.val]

\* C20: for every generated pair and comment, the 32-byte public point in the
\* private key container (public-key blob, private section, last 32 bytes of
\* the 64-byte private field) equals the point in the 'ssh-ed25519 ...' string.
C20_PublicPointRoundTrip ==
    keys.made =>
        LET point == PublicPointOfString
            c     == PrivateContainer
        IN  /\ Len(point) = KeyLen
            /\ c.blobPoint = point
            /\ c.sectionPoint = point
            /\ Len(c.privField) = 2 * KeyLen
            /\ SubSeq(c.privField, KeyLen + 1, 2 * KeyLen) = point

\* a pair whose seed differs from its public point, with a multi-byte comment
C20_Witness ==
    /\ keys.made
    /\ Len(keys.comment) = 7
    /\ SubSeq(PrivateContainer.privField, 1, KeyLen) # PublicPointOfString

\* the private section a reader finds in the container, split where the
\* comment field ends: the fields, and the padding after them
PrivateSection ==
    LET full    == fromBase64(joinLines(keys.privateKey))
        cipher  == readString(full, Len(AuthMagic) + 1)
        kdf     == readString(full, cipher.next)
        kdfOpts == readString(full, kdf.next)
        blob    == readString(full, kdfOpts.next + 4)
        section == readString(full, blob.next).val
        sType   == readString(section, 9)
        sPub    == readString(section, sType.next)
        sPriv   == readString(section, sPub.next)
        sComm   == readString(section, sPriv.next)
    IN  [fields  |-> SubSeq(section, 1, sComm.next - 1),
         comment |-> sComm.val,
         padding |-> SubSeq(section, sComm.next, Len(section))]

\* the fewest bytes that bring a length up to a multiple of the block size
FewestPadding(len) == (BlockSize - (len % BlockSize)) % BlockSize

\* C21 as stated: for every comment length the private section is padded with
\* the fewest bytes that bring its length up to a multiple of 8, the i-th
\* padding byte is i, and the padded length is a multiple of 8.
C21_FewestPadding ==
    keys.made =>
        LET s == PrivateSection
        IN  /\ s.comment = keys.comment
            /\ Len(s.padding) = FewestPadding(Len(s.fields))
            /\ \A i \in 1..Len(s.padding) : s.padding[i] = i
            /\ (Len(s.fields) + Len(s.padding)) % BlockSize = 0

\* What the code does instead: the private section is padded with 1 to 8
\* bytes, a whole block of 8 when its length is already a multiple of 8 and
\* the fewest bytes that reach a multiple of 8 otherwise; the i-th padding
\* byte is i, and the padded length is a multiple of 8.
C21_PaddingToNextBlock ==
    keys.made =>
        LET s == PrivateSection
            n == Len(s.fields)
        IN  /\ s.comment = keys.comment
            /\ Len(s.padding) \in 1..BlockSize
            /\ Len(s.padding) = (IF n % BlockSize = 0 THEN BlockSize ELSE FewestPadding(n))
            /\ \A i \in 1..Len(s.padding) : s.padding[i] = i
            /\ (n + Len(s.padding)) % BlockSize = 0

\* a pair whose private section is already a whole number of blocks before
\* the padding: a whole block of padding follows it
C21_WholeBlockAdded ==
    /\ keys.made
    /\ Len(PrivateSection.fields) % BlockSize = 0
    /\ PrivateSection.padding = <<1, 2, 3, 4, 5, 6, 7, 8>>

\* C22 as stated: after saveSSHKeyPair(d, pair) returns, the private key file
\* of d has mode 0600, also when it existed with wider permissions before, and
\* the public key file is world-readable.
C22_KeyFileModes ==
    (outcome.op = "saveSSHKeyPair" /\ outcome.threw = "") =>
        /\ disk.priv # Absent /\ disk.priv.mode = Mode0600
        /\ disk.pub # Absent /\ "or" \in disk.pub.mode

\* What holds of the private key file alone
C22_PrivateOwnerOnly ==
    (outcome.op = "saveSSHKeyPair" /\ outcome.threw = "") =>
        /\ disk.priv # Absent /\ disk.priv.mode = Mode0600
        /\ disk.priv.data[1] = "private"

\* the call found the private key file with mode 0666 and left it with 0600
C22_WiderBefore ==
    /\ outcome.op = "saveSSHKeyPair"
    /\ outcome.found.priv # Absent
    /\ outcome.found.priv.mode = Mode0666
    /\ disk.priv.mode = Mode0600

\* a config the schema rejects, said without the schema's definition
InvalidConfig(config) == config.provider = ""

\* what createDeployment(config) must do from a state, `touched` being what a
\* failing call may change on disk
CreateOutcome(config, touched) ==
    IF disk.dir \/ InvalidConfig(config)
    THEN /\ outcome'.threw # ""
         /\ dstate' = dstate
         /\ \A f \in (DOMAIN disk) \ touched : disk'[f] = disk[f]
    ELSE /\ outcome'.threw = ""
         /\ disk'.dir /\ disk'.config = config
         /\ dstate' # NoFile
         /\ dstate'.status = "initialized" /\ dstate'.checkpoints = <<>>

\* C27 as stated: createDeployment fails when a deployment of that name exists
\* or the config fails schema validation, and then creates or modifies no
\* directory or file; a newly created deployment has status initialized and an
\* empty checkpoint list.
C27_FailedCreateTouchesNothing ==
    [][\A config \in Configs : CreateDeployment(config) => CreateOutcome(config, {})]_vars

\* C27: createDeployment fails when a deployment of that name exists or the
\* config fails schema validation, and then creates or modifies no directory
\* or file of any deployment (the existing one's config and state are
\* unchanged), though it makes the base directories if they are missing; so
\* there is at most one deployment per name, and a newly created one has
\* status initialized and an empty checkpoint list.
C27_FailedCreateKeepsDeployments ==
    [][\A config \in Configs : CreateDeployment(config) => CreateOutcome(config, {"base"})]_vars

\* a create refused for an existing deployment whose state has moved on and
\* whose config is another than the one offered
C27_Witness ==
    /\ outcome = [op |-> "createDeployment", threw |-> "already exists"]
    /\ disk.config # Absent /\ disk.config.createdAt = 2
    /\ dstate # NoFile /\ dstate # Malformed /\ dstate.status = "failed"

\* an update whose merged state the schema rejects, said without the schema
InvalidUpdate(update) == "status" \in DOMAIN update /\ update.status \notin Statuses

\* the state file is there and is no state record
Damaged(file) == file # NoFile /\ ~DeploymentStateSchema(file)

\* C28: updateDeploymentState(name, update) writes one complete state record
\* in which every field not named in the update keeps its previous persisted
\* value and updatedAt is refreshed; when the persisted state is malformed or
\* the merged state fails schema validation it throws and leaves the file as
\* it was.
C28_UpdateWritesWholeOrNothing ==
    [][\A update \in Updates : UpdateDeploymentState(update) =>
        IF outcome'.threw = ""
        THEN LET prev == IF dstate = NoFile THEN InitialState ELSE dstate
             IN  /\ ~Damaged(dstate) /\ ~InvalidUpdate(update)
                 /\ DeploymentStateSchema(dstate')
                 /\ DOMAIN dstate' = (DOMAIN prev) \cup (DOMAIN update)
                 /\ \A f \in (DOMAIN prev) \ ((DOMAIN update) \cup {"updatedAt"}) :
                        dstate'[f] = prev[f]
                 /\ \A f \in (DOMAIN update) \ {"updatedAt"} : dstate'[f] = update[f]
                 /\ dstate'.updatedAt > prev.updatedAt
        ELSE /\ dstate' = dstate
             /\ Damaged(dstate) \/ InvalidUpdate(update) \/ ~disk.dir]_vars

\* an update of the checkpoints alone has kept the status and the error that
\* an earlier update wrote
C28_Witness ==
    /\ outcome = [op |-> "updateDeploymentState", threw |-> ""]
    /\ dstate.status = "failed" /\ dstate.lastError = "boom"
    /\ dstate.checkpoints = <<1>>

\* an update refused because the state file is damaged: the file is as it was
C28_DamagedRefused ==
    /\ outcome = [op |-> "updateDeploymentState", threw |-> "read"]
    /\ dstate = Malformed

\* the process of a tunnel is alive: it has not exited and has not been killed
Alive(t) == procs[t.proc].st \in {"starting", "bound"} /\ ~procs[t.proc].killed

\* the entries of the registry whose process is alive
LiveEntries == {activeTunnels[d] : d \in {n \in Names : activeTunnels[n] # NoTunnel
                                                       /\ Alive(activeTunnels[n])}}

\* C23: getTunnel(d) never returns a tunnel whose process has exited or been
\* killed, and getActiveTunnels() returns only tunnels whose process is alive;
\* a dead entry met by either call is gone from the registry when the call
\* returns.  (Each call does return the live entries it is asked for.)
C23_QueriesReturnLiveTunnels ==
    [][/\ \A d \in Names : GetTunnel(d) =>
            /\ \A t \in got'.result : Alive(t)
            /\ activeTunnels'[d] # NoTunnel => Alive(activeTunnels'[d])
            /\ got'.result = {activeTunnels[d]} \cap LiveEntries
       /\ GetActiveTunnels =>
            /\ \A t \in got'.result : Alive(t)
            /\ \A d \in Names : activeTunnels'[d] # NoTunnel => Alive(activeTunnels'[d])
            /\ got'.result = LiveEntries]_vars

\* getTunnel(d) has returned null while a process spawned for d is dead, and
\* another call had returned a tunnel for d
C23_Witness ==
    /\ got.op = "getTunnel" /\ got.result = {}
    /\ \E p \in ProcIds : procs[p].name = got.name /\ ProcDead(p)
    /\ \E c \in CallIds : calls[c].name = got.name /\ calls[c].pc = "returned"

\* C24: stopTunnel(d) kills the process of d's entry and removes the entry;
\* for a deployment that has no entry (a second call among them) it changes
\* nothing in the registry and kills nothing.
C24_StopTunnel ==
    [][\A d \in Names : StopTunnel(d) =>
        LET t == activeTunnels[d]
        IN  IF t # NoTunnel
            THEN /\ procs'[t.proc].killed
                 /\ \A p \in ProcIds \ {t.proc} : procs'[p] = procs[p]
                 /\ activeTunnels' = [activeTunnels EXCEPT ![d] = NoTunnel]
            ELSE /\ activeTunnels' = activeTunnels
                 /\ procs' = procs]_vars

\* a process that was killed and has not exited yet, its deployment without an
\* entry and without a returned tunnel on hold
C24_Witness ==
    \E p \in ProcIds :
        /\ procs[p].killed /\ procs[p].st # "gone"
        /\ activeTunnels[procs[p].name] = NoTunnel
        /\ held[procs[p].name] = 0

\* C25 as stated: after stopAllTunnels() the registry is empty and every
\* forwarding process an earlier startTunnel spawned that was still alive has
\* been sent a kill.
C25_StopAllKillsEveryProcess ==
    [][StopAllTunnels =>
        /\ \A d \in Names : activeTunnels'[d] = NoTunnel
        /\ \A p \in ProcIds : ProcRunning(p) => procs'[p].killed]_vars

\* What holds: the registry is empty and the processes of its entries are
\* killed
C25_StopAllKillsRegistered ==
    [][StopAllTunnels =>
        /\ \A d \in Names : activeTunnels'[d] = NoTunnel
        /\ \A d \in Names : activeTunnels[d] # NoTunnel =>
                procs'[activeTunnels[d].proc].killed]_vars

\* the object as a disconnect() leaves it
Disconnected == conn.client = "ended" /\ ~conn.connected

\* C26: disconnect() may be called in any state (never connected, connected,
\* already disconnected): every call leaves isConnected() false, and a call
\* made on an object already disconnected changes nothing.
C26_DisconnectAnyTime ==
    [][Disconnect =>
        /\ ~conn'.connected
        /\ conn'.client = "ended"
        /\ Disconnected => (conn' = conn /\ ops' = ops /\ peer' = peer)]_vars

\* a connection that connect() had established, disconnected
C26_Witness ==
    /\ Disconnected
    /\ conn.pc = "done"
    /\ ~hist.live

\* an object disconnected before any connect() was made on it
C26_NeverConnected ==
    /\ Disconnected
    /\ conn.pc = "idle" /\ hist.attempts = 0

\* C29: a required remote command run through execOrFail is executed once and
\* never retried (each command of a step call is run once, in the order of the
\* step's list); execOrFail throws if and only if the exit code is non-zero,
\* with stderr, or stdout when stderr is empty, in the error; and a step runs
\* no later command after the first failing one (a call that threw runs no
\* more commands).
C29_ExecOrFail ==
    LET n == Len(prov.issued)
    IN  /\ prov.issued = [i \in 1..n |-> i]
        /\ prov.st = "running" => prov.pc = n + 1
        /\ IF n = 0 THEN TRUE
           ELSE IF prov.last = Rejected THEN prov.st = "threw"
           ELSE LET cmd == StepCommands(prov.step)[n]
                IN  cmd.kind = "required" =>
                        /\ (prov.st = "threw") <=> (prov.last.code # 0)
                        /\ prov.st = "threw" =>
                              prov.err = << cmd.errorMessage,
                                            IF prov.last.stderr # "" THEN prov.last.stderr
                                            ELSE prov.last.stdout >>

\* setupSwap has thrown at its third command, which failed with nothing on
\* stderr: the error carries its stdout, and the four commands after it were
\* not run
C29_Witness ==
    /\ prov.step = "setupSwap" /\ prov.st = "threw"
    /\ prov.issued = <<1, 2, 3, 4>>
    /\ prov.err = <<"Failed to setup swap", "out">>

\* C30 as stated: every provisioning step issues no state-changing remote
\* command when its target condition already holds at entry, so a step run
\* twice in a row applies its action at most once.
C30_StepsCheckBeforeActing ==
    (prov.entry \/ prov.again) => ~prov.changed

\* What holds: the steps that begin with a check (setupSwap and the installs)
\* issue no state-changing command when their target condition holds at
\* entry, nor when run right after a call of theirs returned
C30_CheckedStepsCheckBeforeActing ==
    (prov.st # "idle" /\ StepCommands(prov.step)[1].kind = "check")
        => ((prov.entry \/ prov.again) => ~prov.changed)

\* a checked step called with its target in place has returned after its check
C30_CheckedStepSkipped ==
    /\ prov.step = "installNode" /\ prov.again /\ prov.entry
    /\ prov.st = "returned" /\ prov.issued = <<1>>

\* C31: getTailscaleAuthUrl returns null only when the node is already
\* authenticated (tailscale status reports BackendState Running and Self
\* online), and in every other case a string that starts with "https://".
C31_NullOnlyWhenAuthenticated ==
    (ask.fn = "getTailscaleAuthUrl" /\ ~ask.gave.threw) =>
        IF Authenticated(ask.said[1]) THEN ask.gave = GaveNull
        ELSE ask.gave.kind = "string" /\ startsWith(ask.gave.value, Https)

\* C31, the part that holds: an authenticated node gives null, and whatever
\* string is returned starts with "https://".
C31_UrlOrNull ==
    (ask.fn = "getTailscaleAuthUrl" /\ ~ask.gave.threw) =>
        /\ Authenticated(ask.said[1]) => ask.gave = GaveNull
        /\ ask.gave.kind \in {"null", "string"}
        /\ ask.gave.kind = "string" => startsWith(ask.gave.value, Https)

\* C31: a node that is not authenticated, and neither command printed a URL
C31_NoUrlFound ==
    /\ ask.fn = "getTailscaleAuthUrl"
    /\ Len(ask.said) = 3
    /\ ask.gave = GaveNull

\* C32: verifyOpenClawDaemon returns normally only when systemctl reports the
\* unit as active and throws for every other reported state, and on the same
\* output it succeeds exactly when isOpenClawRunning returns true.
C32_VerifyAgreesWithIsRunning ==
    (ask.fn = "verifyOpenClawDaemon" /\ ask.said[1] # Rejected) =>
        /\ ~ask.gave.threw <=> trim(ask.said[1].stdout) = Active
        /\ ~ask.gave.threw <=> isOpenClawRunning(ask.said[1]) = GaveBool(TRUE)

\* C32, the part that holds: an active unit verifies, and a unit reported as
\* anything that does not contain the word (failed, unknown, nothing) throws.
C32_ActiveVerifies ==
    (ask.fn = "verifyOpenClawDaemon" /\ ask.said[1] # Rejected) =>
        /\ trim(ask.said[1].stdout) = Active => ~ask.gave.threw
        /\ ~includes(ask.said[1].stdout, Active) => ask.gave.threw

\* C32: the unit is reported inactive (or deactivating) and the call returned
C32_InactiveVerified ==
    /\ ask.fn = "verifyOpenClawDaemon"
    /\ ask.said[1] # Rejected
    /\ ~ask.gave.threw
    /\ isOpenClawRunning(ask.said[1]) = GaveBool(FALSE)

\* C33: the exit of a forwarding process, and the failed settle check of a
\* call, remove only that process's own registry entry: the entry of another
\* process, spawned for the same deployment since, stays.
C33_ExitRemovesOwnEntry ==
    [][/\ \A p \in ProcIds : ProcExit(p) =>
            \A d \in Names : (activeTunnels[d] # NoTunnel /\ activeTunnels[d].proc # p)
                                => activeTunnels'[d] = activeTunnels[d]
       /\ \A c \in CallIds : SettleDone(c) =>
            \A d \in Names : (activeTunnels[d] # NoTunnel /\ activeTunnels[d].proc # c)
                                => activeTunnels'[d] = activeTunnels[d]]_vars

\* C33: a live process startTunnel spawned that no getTunnel, stopTunnel or
\* stopAllTunnels can reach: the registry has no entry for its deployment
C33_LiveProcessUnreachable ==
    \E p \in ProcIds :
        /\ ProcRunning(p) /\ ~procs[p].killed
        /\ calls[p].pc = "returned"
        /\ activeTunnels[procs[p].name] = NoTunnel

\* C34: every tunnel startTunnel returns has a process that was still alive at
\* the end of that process's own settle interval: a call made while another
\* call for the same deployment is waiting out the interval is not handed the
\* tunnel that call has yet to confirm.
C34_ReturnedTunnelConfirmed ==
    [][/\ \A c \in CallIds, d \in Names : StartTunnel(c, d) =>
            (calls'[c].pc = "returned"
                => calls[calls'[c].result.proc].settled = "alive")
       /\ \A c \in CallIds : SettleDone(c) =>
            (calls'[c].pc = "returned" => calls'[c].settled = "alive")]_vars

\* C34, the part that holds: the call that spawned the process returns it only
\* after its settle interval, and only if the process is alive then.
C34_SpawnerWaitsSettle ==
    [][\A c \in CallIds :
            (calls[c].pc # "returned" /\ calls'[c].pc = "returned"
             /\ calls'[c].result.proc = c)
                => calls[c].pc = "settling" /\ calls'[c].settled = "alive"]_vars

\* C34: a call has returned the tunnel of a call that is still settling
C34_HandedUnconfirmed ==
    \E c \in CallIds :
        /\ calls[c].pc = "returned"
        /\ calls[c].result.proc # c
        /\ calls[calls[c].result.proc].pc = "settling"

\* C35: exec and execStream report exit code 0 only when the remote command
\* exited with status 0: when the channel closes without an exit status (the
\* command was killed by a signal, or the connection was lost while it ran) the
\* code reported is not 0.
C35_ZeroOnlyForStatusZero ==
    \A o \in OpIds :
        (ops[o].pc = "resolved" /\ ops[o].kind \in {"exec", "execStream"} /\ ops[o].code = "0")
            => ops[o].status = "0"

\* C35, the part that holds: an exit status the command did give is reported
\* as it is.
C35_StatusReported ==
    \A o \in OpIds :
        (ops[o].pc = "resolved" /\ ops[o].kind \in {"exec", "execStream"}
         /\ ops[o].status # "null")
            => ops[o].code = ops[o].status

\* C35: a command whose channel closed with no exit status, resolved with code 0
C35_NoStatusReportsZero ==
    \E o \in OpIds :
        /\ ops[o].pc = "resolved" /\ ops[o].kind \in {"exec", "execStream"}
        /\ ops[o].status = "null"
        /\ ops[o].code = "0"

\* C36: isConnected() is true only while the transport is usable: after the
\* connection is lost without a local disconnect() (closed by the server, a
\* transport error, a keepalive failure) isConnected() returns false.
C36_ConnectedOnlyWhileUsable ==
    ~NotConnected(conn) => conn.client = "ready"

\* C36, the part that holds: isConnected() is false until a connect() has
\* succeeded, and true from then until the transport is lost or disconnect()
\* is called.
C36_UsableIsConnected ==
    /\ conn.client = "ready" => ~NotConnected(conn)
    /\ ~NotConnected(conn) => hist.live

\* C36: the transport is gone, no disconnect() was called, isConnected() is true
C36_LostStillConnected ==
    /\ conn.client = "dead"
    /\ hist.live
    /\ ~NotConnected(conn)

\* C37: at most one connect-timeout timer is pending per SSHConnection at any
\* time, and none once connect() has returned or thrown; the timer pending is
\* that of the attempt in progress, so none left over from an earlier attempt
\* can call client.end() on a connection a later attempt established.
C37_OneTimerPending ==
    /\ Cardinality(conn.timers) <= 1
    /\ conn.pc \in {"idle", "done", "threw"} => conn.timers = {}
    /\ conn.timers \subseteq {conn.attempt}
    /\ conn.client = "ready" => conn.timers = {}

\* C37: connect() returned after an attempt that failed or timed out, and a
\* later one that succeeded
C37_Witness ==
    /\ conn.pc = "done"
    /\ hist.attempts >= 2
    /\ Len(hist.errLog) >= 1
    /\ conn.timers = {}

\* C38: testSSHConnection never throws; it returns true only when its single
\* connect attempt succeeded and the probe command exited 0 with output "ok";
\* and in every outcome it leaves no SSH connection open when it returns.
C38_TestLeavesNothingOpen ==
    test.pc = "returned" =>
        /\ test.result \in {"true", "false"}
        /\ test.result = "true" =>
                test.conn.pc = "done" /\ test.status = "0" /\ trim(test.stdout) = Ok
        /\ ~IsOpen(test.conn)

\* C38, the part that holds: the call returns true or false, true only after a
\* successful connect and the output "ok" with the code exec reported 0, and a
\* call whose connect failed or whose exec resolved leaves nothing open.
C38_TestClosesAfterExec ==
    test.pc = "returned" =>
        /\ test.result \in {"true", "false"}
        /\ test.result = "true" =>
                /\ test.conn.pc = "done" /\ test.op = "resolved"
                /\ CodeOrZero(test.status) = "0" /\ trim(test.stdout) = Ok
        /\ test.op # "rejected" => ~IsOpen(test.conn)

\* C38: the call returned false and its connection is still open
C38_LeftOpen ==
    /\ test.pc = "returned"
    /\ test.result = "false"
    /\ IsOpen(test.conn) /\ ~NotConnected(test.conn)

\* C39: after the user leaves the log viewer's logs with Esc (goBack), the view
\* stays in "selecting" until the user selects a deployment again, no
\* auto-refresh timer is left running and no connection the view opened stays
\* connected, also when a log fetch was in flight when Esc was pressed.
C39_GoBackSettles ==
    /\ [](ui.screen = "logs" /\ ui.viewState = "selecting" =>
            /\ ~ui.interval
            /\ \A s \in SessIds : sess[s].site = "logs" => sess[s].st # "live")
    /\ [][(ui.screen = "logs" /\ ui'.screen = "logs" /\ ui.viewState = "selecting")
            => ui'.viewState \in {"selecting", "loading"}]_vars

\* C39, the part that holds: goBack itself leaves the view in "selecting", with
\* no timer and with the session its ref held disconnected, and with no fetch
\* in flight the view stays so until a deployment is selected.
C39_GoBackWithNoFetch ==
    /\ [][(ui.screen = "logs" /\ ui.viewState \in {"viewing", "error"}
           /\ ui'.viewState = "selecting") =>
                /\ ~ui'.interval /\ ~ui'.autoRefresh
                /\ ~isConnected(ui.sshRef)']_vars
    /\ [][(ui.screen = "logs" /\ ui'.screen = "logs" /\ ui.viewState = "selecting"
           /\ ui.reading = 0 /\ \A s \in SessIds : sess[s].st # "connecting")
                => ui'.viewState \in {"selecting", "loading"}]_vars

\* C39: the view is back on the logs of a fetch that was in flight at Esc,
\* with nothing selected since
C39_FetchOutlivedGoBack ==
    /\ ui.screen = "logs"
    /\ ui.viewState = "selecting"
    /\ ui.reading > 0

\* C40: over any number of setupSwap runs on one server, re-runs after a
\* failure at any of its commands included, the '/swapfile none swap sw 0 0'
\* line is appended to /etc/fstab at most once and the 'vm.swappiness=100'
\* line to /etc/sysctl.conf at most once.
C40_AppendedAtMostOnce ==
    host.fstab <= 1 /\ host.sysctlConf <= 1

\* C40, the part that holds: a run appends each line at most once, and a run
\* that finds the swap file active appends nothing.
C40_OneRunAppendsOnce ==
    [][(prov.step = "setupSwap" /\ prov'.step = "setupSwap" /\ prov'.n = prov.n) =>
            /\ host'.fstab > host.fstab =>
                \A i \in DOMAIN prov.issued : Appends("setupSwap", prov.issued[i]) # "fstab"
            /\ host'.sysctlConf > host.sysctlConf =>
                \A i \in DOMAIN prov.issued : Appends("setupSwap", prov.issued[i]) # "sysctlConf"
            /\ prov.entry => host'.fstab = host.fstab /\ host'.sysctlConf = host.sysctlConf]_vars

\* C40: a second run of setupSwap has appended both lines again
C40_AppendedTwice ==
    /\ prov.step = "setupSwap"
    /\ prov.n = 2
    /\ host.fstab = 2 /\ host.sysctlConf = 2

====
